---- MODULE Spec2Model ----
(***************************************************************************)
(* Memory retrieval and effect extraction of the RPG game worker           *)
(* (src/src/workers/game.ts and the five-variant GameWorker kept in        *)
(* src/src/workers/player.ts).                                             *)
(*                                                                         *)
(* Units: importance and similarity scores are kept in tenths (0.8 is 8),  *)
(* so a combined score is an integer number of hundredths.                 *)
(***************************************************************************)
EXTENDS Integers, Sequences, FiniteSets, TLC

\* ------------------------------------------------------------------------
\* Bounds of the model
\* ------------------------------------------------------------------------
MaxRows == 2

MaxMatches == 2

MaxLimit == 2

\* rows of the relational table plus matches of one index answer
MaxEnv == 3

\* candidate effects in one parsed array
MaxBatch == 2

\* effects in the array of an invocation that runs beside another one
MaxConcurrent == 1

\* characters or words in an identifier
MaxLen == 3

\* ------------------------------------------------------------------------
\* Program constants
\* ------------------------------------------------------------------------
EmbeddingDim == 768

DefaultLimit == 5

MinTopK == 20

DefaultImportance == 5

\* ------------------------------------------------------------------------
\* Value domains
\* ------------------------------------------------------------------------
Players == {"p1", "p2"}

\* String(undefined)
Undefined == "undefined"

\* Number(undefined), Number("abc")
NaN == 1000

\* a memory mapped from a relational row carries no score property
NoScore == 1001

\* importance values the write paths put into the relational table
RowImportances == {5, 8}

\* metadata.importance of an index entry, after Number(): a stored value,
\* "0" or a missing property (NaN)
MatchImportances == {0, 3, 8, NaN}

\* cosine similarity returned by the index, in tenths
Scores == {-5, 0, 9}

Max(a, b) == IF a >= b THEN a ELSE b

Min(a, b) == IF a <= b THEN a ELSE b

Range(s) == {s[i] : i \in 1..Len(s)}

\* Array.prototype.slice(0, n) for n >= 0
Slice(s, n) == SubSeq(s, 1, Min(n, Len(s)))

\* Array.prototype.filter
RECURSIVE SelectIdx(_, _)
SelectIdx(n, keep) ==
  IF n = 0 THEN <<>>
  ELSE IF n \in keep THEN Append(SelectIdx(n - 1, keep), n)
       ELSE SelectIdx(n - 1, keep)

\* Array.prototype.sort with the comparator (a, b) => key(b) - key(a): a stable
\* sort, descending by key; key is the sequence of the elements' keys
StableSortDesc(s, key) ==
  LET n == Len(s)
      pos(i) == 1 + Cardinality({j \in 1..n :
                      key[j] > key[i] \/ (key[j] = key[i] /\ j < i)})
  IN [p \in 1..n |-> s[CHOOSE i \in 1..n : pos(i) = p]]

\* ------------------------------------------------------------------------
\* State
\* ------------------------------------------------------------------------
VARIABLES
  memories,   \* the relational table `memories`, in rowid order
  index,      \* the entries of MEMORIES_VECTORSTORE, in insertion order
  procs,      \* the request each worker invocation is handling, and where
  call,       \* the retrieveRelevantMemories call that has run, or NoCall
  batch,      \* the candidate effects handed to the extraction step
  extracted,  \* what the extraction step returned, or NoExtract
  inventories \* the inventory column of the table `players`, by player id

vars == <<memories, index, procs, call, batch, extracted, inventories>>

\* the concurrent invocations of the worker
Procs == {1, 2}

Idle == [kind |-> "idle", pc |-> "idle"]

NoProcs == [p \in Procs |-> Idle]

NoCall == [kind |-> "none"]

NoExtract == [kind |-> "none"]

\* no row in the table `players`
NoInventories == <<>>

\* ------------------------------------------------------------------------
\* retrieveRelevantMemories
\* ------------------------------------------------------------------------
\* const { playerId, location, action, limit = 5 } = memoryRequest
RequestLimit(req) == IF req.hasLimit THEN req.limit ELSE DefaultLimit

\* SELECT * FROM memories WHERE player_id = ? ORDER BY importance DESC LIMIT ?
\* The order of rows of equal importance is the engine's choice: every answer
\* the statement allows.
DbQueryAnswers(table, playerId, limit) ==
  LET mine == {i \in 1..Len(table) : table[i].player_id = playerId}
      n == Min(limit, Cardinality(mine))
  IN {rows \in [1..n -> {table[i] : i \in mine}] :
        /\ \A i, j \in 1..n : i < j =>
             /\ rows[i].id # rows[j].id
             /\ rows[i].importance >= rows[j].importance
        /\ \A k \in mine : (\A i \in 1..n : rows[i].id # table[k].id) =>
             \A i \in 1..n : rows[i].importance >= table[k].importance}

mapDbToMemory(m) ==
  [id |-> m.id, playerId |-> m.player_id, importance |-> m.importance,
   score |-> NoScore]

\* Fallback with the comparator turned round: (a, b) => a.importance - b.importance
Fallback_Ascending(rows, limit) ==
  LET mapped == [i \in 1..Len(rows) |-> mapDbToMemory(rows[i])]
      key == [i \in 1..Len(rows) |-> 0 - mapped[i].importance]
  IN Slice(StableSortDesc(mapped, key), limit)

\* (dbMemories.results || []).map(mapDbToMemory)
\*    .sort((a, b) => b.importance - a.importance).slice(0, limit)
Fallback(rows, limit) ==
  LET mapped == [i \in 1..Len(rows) |-> mapDbToMemory(rows[i])]
      key == [i \in 1..Len(rows) |-> mapped[i].importance]
  IN Slice(StableSortDesc(mapped, key), limit)

\* topK: Math.max(limit * 3, 20)
TopK(limit) == Max(limit * 3, MinTopK)

\* x || 0.5 : 0 and NaN are falsy
OrDefaultImportance(x) == IF x = 0 \/ x = NaN THEN DefaultImportance ELSE x

\* match.score || 0
OrZero(x) == IF x = NaN THEN 0 ELSE x

\* the comparator of the sort turned round: scoreA - scoreB
CombinedScore_Ascending(m) == 0 - OrZero(m.score) * OrDefaultImportance(m.importance)

\* (a.score || 0) * (a.importance || 0.5)
CombinedScore(m) == OrZero(m.score) * OrDefaultImportance(m.importance)

\* MatchFilter without the comparison of the player ids
MatchFilter_AnyPlayer(match, playerId) == match.hasMeta

\* .filter(match => hasMetadata && String(matchPlayerId) === String(playerId))
MatchFilter(match, playerId) == match.hasMeta /\ match.playerId = playerId

\* .map(match => ({ id, playerId, ..., importance, score: match.score || 0 }))
MatchToMemory(match) ==
  [id |-> match.id, playerId |-> match.playerId,
   importance |-> match.importance, score |-> OrZero(match.score)]

\* RankMatches without the final .slice(0, limit)
RankMatches_NoSlice(matches, playerId, limit) ==
  LET keep == {i \in 1..Len(matches) : MatchFilter(matches[i], playerId)}
      idx == SelectIdx(Len(matches), keep)
      mapped == [i \in 1..Len(idx) |-> MatchToMemory(matches[idx[i]])]
      key == [i \in 1..Len(idx) |-> CombinedScore(mapped[i])]
  IN StableSortDesc(mapped, key)

\* results.matches.filter(...).map(...).sort(...).slice(0, limit)
RankMatches(matches, playerId, limit) ==
  LET keep == {i \in 1..Len(matches) : MatchFilter(matches[i], playerId)}
      idx == SelectIdx(Len(matches), keep)
      mapped == [i \in 1..Len(idx) |-> MatchToMemory(matches[idx[i]])]
      key == [i \in 1..Len(idx) |-> CombinedScore(mapped[i])]
  IN Slice(StableSortDesc(mapped, key), limit)

\* The value retrieveRelevantMemories returns for a request and the outcomes
\* of its three external calls.  path names the return statement taken.
\*   db.kind : "throw" | "noresults" | "ok"      (rows of the answer)
\*   emb     : "throw" | "nodata" | "wrongdim" | "ok"
\*   vs.kind : "throw" | "nomatches" | "ok"      (matches of the answer)
retrieveRelevantMemories(req, db, emb, vs) ==
  LET limit == RequestLimit(req)
      rows == IF db.kind = "ok" THEN db.rows ELSE <<>>
      ranked == RankMatches(vs.matches, req.playerId, limit)
  IN IF db.kind = "throw" \/ emb = "throw"
       THEN [raised |-> FALSE, list |-> <<>>, path |-> "catch"]
     ELSE IF emb = "nodata"
       THEN [raised |-> FALSE, list |-> Fallback(rows, limit),
             path |-> "fallback-embedding"]
     ELSE IF emb = "wrongdim"
       THEN [raised |-> FALSE, list |-> <<>>, path |-> "invalid-embedding"]
     ELSE IF vs.kind = "throw"
       THEN [raised |-> FALSE, list |-> <<>>, path |-> "catch"]
     ELSE IF vs.kind = "nomatches" \/ Len(vs.matches) = 0
       THEN [raised |-> FALSE, list |-> Fallback(rows, limit),
             path |-> "fallback-nomatches"]
     ELSE IF Len(ranked) > 0
       THEN [raised |-> FALSE, list |-> ranked, path |-> "similarity"]
     ELSE [raised |-> FALSE, list |-> Fallback(rows, limit),
           path |-> "fallback-filtered"]

\* ------------------------------------------------------------------------
\* JSON values of a parsed generator answer
\* ------------------------------------------------------------------------
\* A string is a sequence of tokens.  A token is one character ("S", "!",
\* " ", "~e" for a non-ASCII letter) or a word of characters of [a-z0-9_-]
\* ("sword", "item", "in_progress") that no conversion below changes.
WordTokens ==
  {"item", "location", "quest", "status", "attribute", "npc",
   "add", "remove", "use", "update", "complete", "move", "start",
   "weapon", "common", "easy", "kill", "pending", "gold", "health",
   "sword", "cave"}

CharTokens == {"S", "!", " ", "~e"}

\* a scalar value: t is what typeof / Array.isArray tell apart
JUndef == [t |-> "undef", n |-> 0, s |-> <<>>]

JNull == [t |-> "null", n |-> 0, s |-> <<>>]

JNum(n) == [t |-> "num", n |-> n, s |-> <<>>]

JStr(s) == [t |-> "str", n |-> 0, s |-> s]

JBool(b) == [t |-> "bool", n |-> IF b THEN 1 ELSE 0, s |-> <<>>]

\* an array or an object where the code reads no element of it
JArr == [t |-> "arr", n |-> 0, s |-> <<>>]

JObj == [t |-> "obj", n |-> 0, s |-> <<>>]

\* !!v
Truthy(v) ==
  CASE v.t \in {"undef", "null"} -> FALSE
    [] v.t = "bool" -> v.n = 1
    [] v.t = "num" -> v.n # 0
    [] v.t = "str" -> v.s # <<>>
    [] OTHER -> TRUE

\* typeof v === 'number'
IsNumber(v) == v.t = "num"

\* typeof v === 'string'
IsString(v) == v.t = "str"

\* v === 'word'
Is(v, word) == v.t = "str" /\ v.s = <<word>>

\* [...words].includes(v)
OneOf(v, words) == v.t = "str" /\ Len(v.s) = 1 /\ v.s[1] \in words

\* String.prototype.toLowerCase on one token
Lower(tok) == IF tok = "S" THEN "s" ELSE tok

\* characters /[^a-z0-9_-]/ does not match
IsIdToken(tok) == tok \in WordTokens \/ tok = "s"

\* characters /[^\x20-\x7E]/ does not match
IsPrintable(tok) == tok # "~e"

RECURSIVE FilterTokens(_, _)
FilterTokens(s, keep) ==
  IF s = <<>> THEN <<>>
  ELSE IF Head(s) \in keep THEN <<Head(s)>> \o FilterTokens(Tail(s), keep)
       ELSE FilterTokens(Tail(s), keep)

RECURSIVE TrimStart(_)
TrimStart(s) ==
  IF s # <<>> /\ Head(s) = " " THEN TrimStart(Tail(s)) ELSE s

RECURSIVE TrimEnd(_)
TrimEnd(s) ==
  IF s # <<>> /\ s[Len(s)] = " " THEN TrimEnd(SubSeq(s, 1, Len(s) - 1)) ELSE s

\* String.prototype.trim
Trim(s) == TrimEnd(TrimStart(s))

\* the replace of NormalizeId without the g flag: the first character that
\* matches is removed
RECURSIVE DropFirstOther(_)
DropFirstOther(s) ==
  IF s = <<>> THEN <<>>
  ELSE IF IsIdToken(Head(s)) THEN <<Head(s)>> \o DropFirstOther(Tail(s))
       ELSE Tail(s)

NormalizeId_FirstOnly(s) == DropFirstOther([i \in 1..Len(s) |-> Lower(s[i])])

\* id.toLowerCase().replace(/[^a-z0-9_-]/g, '')
NormalizeId(s) ==
  LET lowered == [i \in 1..Len(s) |-> Lower(s[i])]
  IN FilterTokens(lowered, {tok \in Range(lowered) : IsIdToken(tok)})

\* value.replace(/[^\x20-\x7E]/g, '').trim()
CleanString(s) == Trim(FilterTokens(s, {tok \in Range(s) : IsPrintable(tok)}))

\* element of data.objectives
Objective(isNull, id, description, type, progress, required, status) ==
  [isNull |-> isNull, id |-> id, description |-> description, type |-> type,
   progress |-> progress, required |-> required, status |-> status]

\* element of data.rewards
Reward(isNull, type, amount, item) ==
  [isNull |-> isNull, type |-> type, amount |-> amount, item |-> item]

\* an array-valued field: kind "undef" (no such property), "other" (a value
\* that is not an array) or "arr"
NoList == [kind |-> "undef", items |-> <<>>]

NotAList == [kind |-> "other", items |-> <<>>]

ListOf(items) == [kind |-> "arr", items |-> items]

\* data.properties: kind "undef" (falsy), "prim" (a truthy primitive) or "obj"
NoProperties ==
  [kind |-> "undef", damage |-> JUndef, defense |-> JUndef, healing |-> JUndef,
   durability |-> JUndef, uses |-> JUndef, effects |-> JUndef]

\* effect.data: kind "undef" (falsy), "prim" (a truthy value without
\* properties of its own) or "obj"
NoData ==
  [kind |-> "undef", id |-> JUndef, name |-> JUndef, type |-> JUndef,
   rarity |-> JUndef, quantity |-> JUndef, value |-> JUndef,
   properties |-> NoProperties, title |-> JUndef, description |-> JUndef,
   difficulty |-> JUndef, objectives |-> NoList, rewards |-> NoList,
   duration |-> JUndef, isTemporary |-> JUndef, progress |-> JUndef]

PrimData == [NoData EXCEPT !.kind = "prim"]

EmptyObjectData == [NoData EXCEPT !.kind = "obj"]

\* an element of the parsed array: kind "prim" (null, a number, a string) or
\* "obj" with the properties type, action and data
PrimEffect == [kind |-> "prim", type |-> JUndef, action |-> JUndef, data |-> NoData]

Effect(type, action, data) ==
  [kind |-> "obj", type |-> type, action |-> action, data |-> data]

\* a parsed value handed to validateAndProcessEffects
ParsedArray(items) == [kind |-> "array", items |-> items]

NotAnArray == [kind |-> "other", items |-> <<>>]

\* what a call yields: a list, or an exception that left the function
Returned(list) == [raised |-> FALSE, list |-> list]

Thrown == [raised |-> TRUE, list |-> <<>>]

\* ------------------------------------------------------------------------
\* validateAndProcessEffects / validateEffect of game.ts
\* ------------------------------------------------------------------------
KnownTypes4 == {"item", "location", "quest", "status"}

ItemActions4 == {"add", "remove", "use"}

StatusActions4 == {"update"}

LocationActions4 == {"move"}

QuestActions4 == {"start", "update", "complete"}

validateEffect(effect) ==
  IF ~Truthy(effect.type) \/ ~Truthy(effect.action) \/ effect.data.kind = "undef"
    THEN FALSE
  ELSE IF Is(effect.type, "item")
    THEN /\ OneOf(effect.action, ItemActions4)
         /\ IsString(effect.data.id)
         /\ IsNumber(effect.data.quantity)
  ELSE IF Is(effect.type, "status")
    THEN /\ OneOf(effect.action, StatusActions4)
         /\ IsString(effect.data.type)
         /\ IsNumber(effect.data.value)
  ELSE IF Is(effect.type, "location")
    THEN /\ OneOf(effect.action, LocationActions4)
         /\ IsString(effect.data.name)
         /\ IsString(effect.data.description)
  ELSE IF Is(effect.type, "quest")
    THEN /\ OneOf(effect.action, QuestActions4)
         /\ IsString(effect.data.id)
         /\ IsNumber(effect.data.progress)
  ELSE FALSE

\* the callback of parsedEffects.filter
EffectFilter4(effect) ==
  /\ effect.kind = "obj"
  /\ Truthy(effect.type) /\ Truthy(effect.action) /\ effect.data.kind # "undef"
  /\ OneOf(effect.type, KnownTypes4)
  /\ validateEffect(effect)

validateAndProcessEffects(parsedEffects) ==
  IF parsedEffects.kind # "array" THEN Returned(<<>>)
  ELSE LET items == parsedEffects.items
           keep == {i \in 1..Len(items) : EffectFilter4(items[i])}
           idx == SelectIdx(Len(items), keep)
       IN Returned([i \in 1..Len(idx) |->
                      Effect(items[idx[i]].type, items[idx[i]].action,
                             items[idx[i]].data)])

\* ------------------------------------------------------------------------
\* validateAndProcessEffects of the five-variant worker (player.ts)
\* ------------------------------------------------------------------------
validItemTypes == {"weapon", "armor", "consumable", "quest", "key"}

validRarities == {"common", "uncommon", "rare", "epic", "legendary"}

validQuestDifficulties == {"easy", "medium", "hard", "epic"}

validObjectiveTypes == {"kill", "collect", "explore", "interact", "escort"}

validObjectiveStatuses == {"pending", "in_progress", "completed"}

validRewardTypes == {"experience", "gold", "item"}

validAttributes ==
  {"health", "mana", "strength", "intelligence", "dexterity", "constitution"}

\* the item actions the prompt of game.ts lists
ItemActions5_WithUse == {"add", "remove", "use"}

ItemActions5 == {"add", "remove"}

QuestActions5 == {"add", "update", "complete"}

LocationActions5 == {"update"}

StatusActions5 == {"add", "remove", "update"}

AttributeActions5 == {"update"}

\* the outcome of the filter callback for one element
Keep(effect) == [r |-> "keep", e |-> effect]

Drop == [r |-> "drop", e |-> PrimEffect]

Throw == [r |-> "throw", e |-> PrimEffect]

\* a property that is neither undefined nor a number becomes 0
DefaultedNumber(v) == IF v.t # "undef" /\ v.t # "num" THEN JNum(0) ELSE v

\* effect.data.properties = effect.data.properties || {} and the defaults
DefaultedProperties(p) ==
  [kind |-> "obj",
   damage |-> DefaultedNumber(p.damage),
   defense |-> DefaultedNumber(p.defense),
   healing |-> DefaultedNumber(p.healing),
   durability |-> DefaultedNumber(p.durability),
   uses |-> DefaultedNumber(p.uses),
   effects |-> IF p.effects.t = "arr" THEN p.effects ELSE JArr]

ObjectiveFilter(obj) ==
  /\ Truthy(obj.id)
  /\ Truthy(obj.description)
  /\ OneOf(obj.type, validObjectiveTypes)
  /\ IsNumber(obj.progress)
  /\ IsNumber(obj.required)
  /\ OneOf(obj.status, validObjectiveStatuses)

RewardFilter(reward) ==
  /\ OneOf(reward.type, validRewardTypes)
  /\ IsNumber(reward.amount)
  /\ reward.amount.n > 0
  /\ (~Is(reward.type, "item") \/ IsString(reward.item))

HasNull(items) == \E i \in 1..Len(items) : items[i].isNull

ItemFilter5(effect) ==
  LET d == effect.data
  IN IF ~OneOf(effect.action, ItemActions5) THEN Drop
     ELSE IF ~Truthy(d.id) \/ ~Truthy(d.name) THEN Drop
     ELSE IF ~OneOf(d.type, validItemTypes) THEN Drop
     ELSE IF ~OneOf(d.rarity, validRarities) THEN Drop
     ELSE IF ~IsNumber(d.quantity) \/ d.quantity.n <= 0 THEN Drop
     ELSE IF ~IsNumber(d.value) \/ d.value.n < 0 THEN Drop
     \* properties.effects = [] on a primitive: TypeError in module code
     ELSE IF d.properties.kind = "prim" THEN Throw
     ELSE Keep([effect EXCEPT !.data.properties = DefaultedProperties(d.properties)])

QuestFilter5(effect) ==
  LET d == effect.data
      objs == SelectIdx(Len(d.objectives.items),
                {i \in 1..Len(d.objectives.items) : ObjectiveFilter(d.objectives.items[i])})
      rews == SelectIdx(Len(d.rewards.items),
                {i \in 1..Len(d.rewards.items) : RewardFilter(d.rewards.items[i])})
  IN IF ~OneOf(effect.action, QuestActions5) THEN Drop
     ELSE IF ~Truthy(d.id) \/ ~Truthy(d.title) \/ ~Truthy(d.description) THEN Drop
     ELSE IF ~OneOf(d.difficulty, validQuestDifficulties) THEN Drop
     ELSE IF d.objectives.kind # "arr" THEN Drop
     \* obj.id of a null element: TypeError
     ELSE IF HasNull(d.objectives.items) THEN Throw
     ELSE IF Len(objs) = 0 THEN Drop
     ELSE IF d.rewards.kind # "arr" THEN Drop
     ELSE IF HasNull(d.rewards.items) THEN Throw
     ELSE IF Len(rews) = 0 THEN Drop
     ELSE Keep([effect EXCEPT
                  !.data.objectives =
                     ListOf([i \in 1..Len(objs) |-> d.objectives.items[objs[i]]]),
                  !.data.rewards =
                     ListOf([i \in 1..Len(rews) |-> d.rewards.items[rews[i]]])])

LocationFilter5(effect) ==
  IF ~OneOf(effect.action, LocationActions5) THEN Drop
  ELSE IF ~Truthy(effect.data.name) \/ ~Truthy(effect.data.description) THEN Drop
  ELSE Keep(effect)

StatusFilter5(effect) ==
  LET d == effect.data
  IN IF ~OneOf(effect.action, StatusActions5) THEN Drop
     ELSE IF ~Truthy(d.id) \/ ~Truthy(d.name) THEN Drop
     ELSE IF ~IsNumber(d.value) THEN Drop
     ELSE IF ~IsNumber(d.duration) \/ d.duration.n <= 0 THEN Drop
     ELSE Keep(effect)

AttributeFilter5(effect) ==
  LET d == effect.data
  IN IF ~OneOf(effect.action, AttributeActions5) THEN Drop
     ELSE IF ~OneOf(d.name, validAttributes) THEN Drop
     ELSE IF ~IsNumber(d.value) THEN Drop
     ELSE IF d.isTemporary.t # "bool"
       THEN Keep([effect EXCEPT !.data.isTemporary = JBool(FALSE)])
     ELSE Keep(effect)

\* the callback of parsedEffects.filter
EffectFilter5(effect) ==
  IF effect.kind # "obj" THEN Drop
  ELSE IF ~Truthy(effect.type) \/ ~Truthy(effect.action) \/ effect.data.kind = "undef"
    THEN Drop
  ELSE IF Is(effect.type, "item") THEN ItemFilter5(effect)
  ELSE IF Is(effect.type, "quest") THEN QuestFilter5(effect)
  ELSE IF Is(effect.type, "location") THEN LocationFilter5(effect)
  ELSE IF Is(effect.type, "status") THEN StatusFilter5(effect)
  ELSE IF Is(effect.type, "attribute") THEN AttributeFilter5(effect)
  ELSE Drop

\* data[key].replace(/[^\x20-\x7E]/g, '').trim() for a string property
CleanValue(v) == IF v.t = "str" THEN JStr(CleanString(v.s)) ELSE v

\* the callback of .map: TRUE when effect.data.id.toLowerCase is no function
NormalizeThrows(effect) == Truthy(effect.data.id) /\ ~IsString(effect.data.id)

NormalizeEffect(effect) ==
  LET d == effect.data
      id == IF Truthy(d.id) THEN JStr(NormalizeId(d.id.s)) ELSE d.id
  IN [effect EXCEPT
        !.data = [d EXCEPT
          !.id = CleanValue(id),
          !.name = CleanValue(d.name),
          !.type = CleanValue(d.type),
          !.rarity = CleanValue(d.rarity),
          !.quantity = CleanValue(d.quantity),
          !.value = CleanValue(d.value),
          !.title = CleanValue(d.title),
          !.description = CleanValue(d.description),
          !.difficulty = CleanValue(d.difficulty),
          !.duration = CleanValue(d.duration),
          !.isTemporary = CleanValue(d.isTemporary),
          !.progress = CleanValue(d.progress)]]

validateAndProcessEffects5(parsedEffects) ==
  IF parsedEffects.kind # "array" THEN Returned(<<>>)
  ELSE LET items == parsedEffects.items
           f == [i \in 1..Len(items) |-> EffectFilter5(items[i])]
           idx == SelectIdx(Len(items), {i \in 1..Len(items) : f[i].r = "keep"})
       IN IF \E i \in 1..Len(items) : f[i].r = "throw" THEN Thrown
          ELSE IF \E i \in 1..Len(idx) : NormalizeThrows(f[idx[i]].e) THEN Thrown
          ELSE Returned([i \in 1..Len(idx) |-> NormalizeEffect(f[idx[i]].e)])

\* ------------------------------------------------------------------------
\* The extraction step: interpretEffects (player.ts) and the parsing part of
\* generateStoryResponse (game.ts)
\* ------------------------------------------------------------------------
\* The answer of env.AI.run as the extraction step sees it:
\*   kind "throw"      the call rejects
\*   kind "noresponse" no response property
\*   kind "nomatch"    the cleaned text holds no [...] (player.ts) / fails to
\*                     parse and holds no {...} (game.ts)
\*   kind "syntax"     JSON.parse rejects the cleaned text
\*   kind "nonstring"  response is a truthy value without a replace method
\*   kind "null"       the text parses to null
\*   kind "value"      the text parses; effects is the array read from it
\*                     (the array itself in player.ts, parsed.effects in
\*                     game.ts; kind "other" when that is no array)
Answer(kind, effects) == [kind |-> kind, effects |-> effects]

\* interpretEffects without its try/catch blocks
interpretEffects_NoCatch(answer) ==
  IF answer.kind \in {"throw", "syntax", "nonstring"} THEN Thrown
  ELSE IF answer.kind \in {"noresponse", "nomatch"} THEN Returned(<<>>)
  ELSE validateAndProcessEffects5(answer.effects)

interpretEffects(answer) ==
  IF answer.kind = "throw" THEN Returned(<<>>)
  ELSE IF answer.kind = "noresponse" THEN Returned(<<>>)
  ELSE IF answer.kind = "nomatch" THEN Returned(<<>>)
  ELSE IF answer.kind = "syntax" THEN Returned(<<>>)
  ELSE IF answer.kind = "nonstring" THEN Returned(<<>>)
  ELSE LET r == validateAndProcessEffects5(answer.effects)
       IN IF r.raised THEN Returned(<<>>) ELSE r

\* effects.filter(effect => quest || (item && add) || location)
MemoryEffects(effects) ==
  LET keep == {i \in 1..Len(effects) :
                 \/ Is(effects[i].type, "quest")
                 \/ (Is(effects[i].type, "item") /\ Is(effects[i].action, "add"))
                 \/ Is(effects[i].type, "location")}
      idx == SelectIdx(Len(effects), keep)
  IN [i \in 1..Len(idx) |-> effects[idx[i]]]

\* generateStoryResponse of game.ts from the answer of env.AI.run on: the
\* effects returned, where the story comes from ("parsed", the "response" text
\* or the "lost" in thought sentence) and the effects handed to storeMemories
generateStoryResponse(answer) ==
  IF answer.kind \in {"throw", "noresponse", "nonstring"}
    THEN [raised |-> FALSE, list |-> <<>>, story |-> "lost", toStore |-> <<>>]
  ELSE IF answer.kind \in {"nomatch", "syntax", "null"}
    THEN [raised |-> FALSE, list |-> <<>>, story |-> "response", toStore |-> <<>>]
  ELSE LET r == validateAndProcessEffects(answer.effects)
       IN [raised |-> FALSE, list |-> r.list, story |-> "parsed",
           toStore |-> MemoryEffects(r.list)]

\* ------------------------------------------------------------------------
\* Inputs
\* ------------------------------------------------------------------------
Rows == [id : 1..MaxRows, player_id : Players, importance : RowImportances]

\* relational tables the write paths can build: unique ids in rowid order
Tables ==
  UNION {{t \in [1..n -> Rows] : \A i \in 1..n : t[i].id = i} : n \in 0..MaxRows}

Requests ==
  [playerId : Players, hasLimit : {TRUE}, limit : 0..MaxLimit]
    \cup [playerId : Players, hasLimit : {FALSE}, limit : {0}]

NoMetaMatches ==
  [id : 1..MaxMatches, score : Scores, hasMeta : {FALSE},
   playerId : {Undefined}, importance : {NaN}]

MetaMatches ==
  [id : 1..MaxMatches, score : Scores, hasMeta : {TRUE},
   playerId : Players, importance : MatchImportances]

\* answers of MEMORIES_VECTORSTORE.query: distinct entries, nearest first
MatchLists(topK) ==
  UNION {{ms \in [1..n -> NoMetaMatches \cup MetaMatches] :
            \A i \in 1..n : /\ ms[i].id = i
                            /\ i < n => ms[i].score >= ms[i + 1].score}
         : n \in 0..Min(MaxMatches, topK)}

DbOutcomes(table, req) ==
  {[kind |-> "throw", rows |-> <<>>], [kind |-> "noresults", rows |-> <<>>]}
    \cup {[kind |-> "ok", rows |-> r] :
            r \in DbQueryAnswers(table, req.playerId, RequestLimit(req))}

EmbeddingOutcomes == {"throw", "nodata", "wrongdim", "ok"}

VsOutcomes(table, req) ==
  {[kind |-> "throw", matches |-> <<>>], [kind |-> "nomatches", matches |-> <<>>]}
    \cup {[kind |-> "ok", matches |-> ms] :
            ms \in MatchLists(Min(TopK(RequestLimit(req)), MaxEnv - Len(table)))}

\* payloads that carry every property the two validators ask of a variant
GoodObjective ==
  Objective(FALSE, JStr(<<"kill">>), JStr(<<"S", "cave">>), JStr(<<"kill">>),
            JNum(0), JNum(3), JStr(<<"pending">>))

NullObjective ==
  Objective(TRUE, JUndef, JUndef, JUndef, JUndef, JUndef, JUndef)

GoodReward == Reward(FALSE, JStr(<<"gold">>), JNum(5), JUndef)

NullReward == Reward(TRUE, JUndef, JUndef, JUndef)

ItemData ==
  [EmptyObjectData EXCEPT
     !.id = JStr(<<"sword">>), !.name = JStr(<<"S", "sword">>),
     !.type = JStr(<<"weapon">>), !.rarity = JStr(<<"common">>),
     !.quantity = JNum(1), !.value = JNum(10)]

QuestData ==
  [EmptyObjectData EXCEPT
     !.id = JStr(<<"cave">>), !.title = JStr(<<"S", "cave">>),
     !.description = JStr(<<"S", " ", "cave">>),
     !.difficulty = JStr(<<"easy">>),
     !.objectives = ListOf(<<GoodObjective>>),
     !.rewards = ListOf(<<GoodReward>>), !.progress = JNum(0)]

LocationData ==
  [EmptyObjectData EXCEPT
     !.name = JStr(<<"cave">>), !.description = JStr(<<"S", " ", "cave">>)]

StatusData ==
  [EmptyObjectData EXCEPT
     !.id = JStr(<<"health">>), !.name = JStr(<<"S", "health">>),
     !.type = JStr(<<"health">>), !.value = JNum(1), !.duration = JNum(5)]

AttributeData ==
  [EmptyObjectData EXCEPT
     !.name = JStr(<<"health">>), !.value = JNum(1), !.isTemporary = JBool(TRUE)]

WellFormedData(type) ==
  CASE type = "item" -> ItemData
    [] type = "quest" -> QuestData
    [] type = "location" -> LocationData
    [] type = "status" -> StatusData
    [] type = "attribute" -> AttributeData
    [] OTHER -> LocationData

GridTypes == {"item", "location", "quest", "status", "attribute", "npc"}

GridActions == {"add", "remove", "use", "update", "complete", "move", "start"}

Word(w) == JStr(<<w>>)

\* every type/action pair with a payload that is well formed for the type
GridCandidates ==
  {Effect(Word(t), Word(a), WellFormedData(t)) : t \in GridTypes, a \in GridActions}

\* candidates of a parsed array: accepted ones and ones that fail one check
CoreCandidates ==
  {PrimEffect,
   Effect(JUndef, JUndef, NoData),
   Effect(Word("item"), Word("add"), NoData),
   Effect(Word("item"), Word("add"), PrimData),
   Effect(JNum(1), Word("add"), ItemData),
   Effect(Word("item"), Word("add"), ItemData),
   Effect(Word("item"), Word("add"), [ItemData EXCEPT !.quantity = JUndef]),
   Effect(Word("item"), Word("add"), [ItemData EXCEPT !.quantity = Word("sword")]),
   Effect(Word("item"), Word("add"), [ItemData EXCEPT !.id = JNum(5)]),
   Effect(Word("item"), Word("remove"),
          [ItemData EXCEPT !.id = JStr(<<"S", "!", "sword", "~e">>)]),
   Effect(Word("item"), Word("add"),
          [ItemData EXCEPT !.properties = [NoProperties EXCEPT !.kind = "prim"]]),
   Effect(Word("item"), Word("add"),
          [ItemData EXCEPT !.properties =
             [NoProperties EXCEPT !.kind = "obj", !.damage = Word("sword")]]),
   Effect(Word("location"), Word("update"), LocationData),
   Effect(Word("location"), Word("move"), LocationData),
   Effect(Word("location"), Word("update"), [LocationData EXCEPT !.name = JNum(5)]),
   Effect(Word("location"), Word("update"),
          [LocationData EXCEPT !.name = JStr(<<" ", "~e">>)]),
   Effect(Word("location"), Word("update"),
          [LocationData EXCEPT !.description = JUndef]),
   Effect(Word("quest"), Word("add"), QuestData),
   Effect(Word("quest"), Word("update"),
          [QuestData EXCEPT !.objectives = ListOf(<<GoodObjective, NullObjective>>)]),
   Effect(Word("quest"), Word("update"),
          [QuestData EXCEPT !.objectives = NotAList]),
   Effect(Word("quest"), Word("complete"),
          [QuestData EXCEPT !.rewards = ListOf(<<NullReward>>)]),
   Effect(Word("status"), Word("update"), StatusData),
   Effect(Word("status"), Word("update"), [StatusData EXCEPT !.duration = JNum(0)]),
   Effect(Word("attribute"), Word("update"),
          [AttributeData EXCEPT !.isTemporary = JUndef])}

Batches ==
  UNION {[1..n -> CoreCandidates] : n \in 0..MaxBatch}
    \cup {<<c>> : c \in GridCandidates}

\* Both workers rewrite the quotes of the answer before JSON.parse
\* (player.ts:1266-1287 turns every " into \", game.ts:107-114 escapes every "
\* that opens a property name or a string), so no element of a parsed array
\* carries a string type: the elements left are primitives and objects
\* without properties.
ParsedCandidates == {PrimEffect, Effect(JUndef, JUndef, NoData)}

ParsedArrays ==
  UNION {[1..n -> ParsedCandidates] : n \in 0..MaxBatch}

Answers ==
  {Answer(k, NotAnArray) : k \in {"throw", "noresponse", "nonstring", "nomatch", "syntax", "null"}}
    \cup {Answer("value", NotAnArray)}
    \cup {Answer("value", ParsedArray(items)) : items \in ParsedArrays}

\* ------------------------------------------------------------------------
\* Actions
\* ------------------------------------------------------------------------
\* POST /game/memory/context: one retrieveRelevantMemories call
Retrieve ==
  /\ call = NoCall
  /\ extracted = NoExtract
  /\ \E req \in Requests, emb \in EmbeddingOutcomes :
       \E db \in DbOutcomes(memories, req) :
         \E vs \in (IF db.kind # "throw" /\ emb = "ok"
                      THEN VsOutcomes(memories, req)
                      ELSE {[kind |-> "notcalled", matches |-> <<>>]}) :
           call' = [kind |-> "retrieve", req |-> req, db |-> db, emb |-> emb,
                    vs |-> vs,
                    result |-> retrieveRelevantMemories(req, db, emb, vs)]
  /\ UNCHANGED <<inventories, memories, index, procs, batch, extracted>>

InitRetrieve ==
  /\ inventories = NoInventories
  /\ memories \in Tables
  /\ index = <<>>
  /\ procs = NoProcs
  /\ call = NoCall
  /\ batch = <<>>
  /\ extracted = NoExtract

NextRetrieve == Retrieve

SpecRetrieve == InitRetrieve /\ [][NextRetrieve]_vars

\* validateAndProcessEffects of game.ts applied to a parsed array
ValidateEffects4 ==
  /\ call = NoCall
  /\ extracted = NoExtract
  /\ extracted' = [kind |-> "validate4",
                   answer |-> Answer("value", ParsedArray(batch)),
                   result |-> validateAndProcessEffects(ParsedArray(batch))]
  /\ UNCHANGED <<inventories, memories, index, procs, call, batch>>

\* validateAndProcessEffects of player.ts applied to a parsed array
ValidateEffects5 ==
  /\ call = NoCall
  /\ extracted = NoExtract
  /\ extracted' = [kind |-> "validate5",
                   answer |-> Answer("value", ParsedArray(batch)),
                   result |-> validateAndProcessEffects5(ParsedArray(batch))]
  /\ UNCHANGED <<inventories, memories, index, procs, call, batch>>

\* interpretEffects of player.ts for one answer of the generator; what parses
\* there is the text between the first [ and the last ], an array
InterpretEffects ==
  /\ call = NoCall
  /\ extracted = NoExtract
  /\ batch = <<>>
  /\ \E answer \in Answers \ {Answer("null", NotAnArray), Answer("value", NotAnArray)} :
       extracted' = [kind |-> "interpret", answer |-> answer,
                     result |-> interpretEffects(answer)]
  /\ UNCHANGED <<inventories, memories, index, procs, call, batch>>

\* generateStoryResponse of game.ts for one answer of the generator;
\* storeMemories runs only for a non-empty toStore, which no answer yields
GenerateStoryResponse ==
  /\ call = NoCall
  /\ extracted = NoExtract
  /\ batch = <<>>
  /\ \E answer \in Answers :
       LET r == generateStoryResponse(answer)
       IN /\ r.toStore = <<>>
          /\ extracted' = [kind |-> "story", answer |-> answer,
                           result |-> [raised |-> r.raised, list |-> r.list]]
  /\ UNCHANGED <<inventories, memories, index, procs, call, batch>>

InitEffects ==
  /\ inventories = NoInventories
  /\ memories = <<>>
  /\ index = <<>>
  /\ procs = NoProcs
  /\ call = NoCall
  /\ batch \in Batches
  /\ extracted = NoExtract

NextEffects ==
  \/ ValidateEffects4
  \/ ValidateEffects5
  \/ InterpretEffects
  \/ GenerateStoryResponse

SpecEffects == InitEffects /\ [][NextEffects]_vars

\* ------------------------------------------------------------------------
\* The normalization of data.id on its own
\* ------------------------------------------------------------------------
\* characters an identifier of the generator is made of: an uppercase
\* letter, a lowercase letter, a punctuation mark, a space, a non-ASCII
\* letter and a word of [a-z0-9_-]
IdAlphabet == {"S", "s", "!", " ", "~e", "sword"}

IdStrings == UNION {[1..n -> IdAlphabet] : n \in 0..MaxLen}

\* what the callback of .map leaves in effect.data.id: the id is lowercased
\* and filtered, then cleaned like every string of data
NormalizedDataId(s) == CleanString(NormalizeId(s))

InitNormalize ==
  /\ inventories = NoInventories
  /\ memories = <<>>
  /\ index = <<>>
  /\ procs = NoProcs
  /\ call = NoCall
  /\ batch = <<>>
  /\ extracted \in {[kind |-> "id", input |-> s] : s \in IdStrings}

\* the callback of .map on an id, and once more on its own result
NormalizeIdentifier ==
  /\ extracted.kind = "id"
  /\ extracted' = [kind |-> "normalized", input |-> extracted.input,
                   once |-> NormalizedDataId(extracted.input),
                   twice |-> NormalizedDataId(NormalizedDataId(extracted.input))]
  /\ UNCHANGED <<inventories, memories, index, procs, call, batch>>

SpecNormalize == InitNormalize /\ [][NormalizeIdentifier]_vars

\* ------------------------------------------------------------------------
\* storeMemories, createVectorMetadata, interpretEffects of game.ts and the
\* routes POST /game/memory and POST /game/action
\* ------------------------------------------------------------------------
\* nanoid() with one sequence of ids for all invocations
nanoid_Shared(p, n) == <<0, n>>

\* nanoid(): an id that no other call returns; p is the invocation and n the
\* number of ids it has drawn
nanoid(p, n) == <<p, n>>

\* the embedding of a text by a provider that answers the same text with the
\* same vector: the vector is named by its text
Embedding(text) == [of |-> text]

\* the switch of storeMemories without its location case
HasContent_NoLocation(effect) ==
  \/ Is(effect.type, "quest")
  \/ (Is(effect.type, "item") /\ Is(effect.action, "add"))

\* the switch of storeMemories: content is set for quest, item add, location
HasContent(effect) ==
  \/ Is(effect.type, "quest")
  \/ (Is(effect.type, "item") /\ Is(effect.action, "add"))
  \/ Is(effect.type, "location")

\* importance, in tenths
EffectImportance(effect) ==
  IF Is(effect.type, "quest") THEN 8
  ELSE IF Is(effect.type, "item") /\ Is(effect.action, "add") THEN 6
  ELSE IF Is(effect.type, "location") THEN 7
  ELSE DefaultImportance

\* effect.type === 'location' ? effect.data.name : 'unknown'
EffectLocation(effect) ==
  IF Is(effect.type, "location") THEN effect.data.name.s ELSE <<"unknown">>

\* the template strings of the switch
EffectContent(effect) ==
  IF Is(effect.type, "quest")
    THEN <<"Quest", " ">> \o effect.action.s \o <<":", " ">> \o effect.data.id.s
  ELSE IF Is(effect.type, "item") /\ Is(effect.action, "add")
    THEN <<"Found item:", " ">> \o effect.data.id.s
           \o <<" ", "(x", ToString(effect.data.quantity.n), ")">>
  ELSE IF Is(effect.type, "location")
    THEN <<"Moved to", " ">> \o effect.data.name.s \o <<":", " ">>
           \o effect.data.description.s
  ELSE <<>>

\* memoryEntry of storeMemories
EffectEntry(playerId, effect) ==
  [playerId |-> playerId, type |-> effect.type.s, action |-> effect.action.s,
   content |-> EffectContent(effect), location |-> EffectLocation(effect),
   importance |-> EffectImportance(effect), validTimestamp |-> TRUE,
   source |-> "story_generation"]

\* `${entry.location} ${entry.content}`
EntryText(entry) == entry.location \o <<" ">> \o entry.content

\* createVectorMetadata raises when toISOString is called on an invalid Date
MetadataRaises(entry) == ~entry.validTimestamp

\* createVectorMetadata: playerId and String(entry.importance || 0.5), read
\* back with Number() by the retrieval
createVectorMetadata(entry, playerId) ==
  [playerId |-> playerId, importance |-> OrDefaultImportance(entry.importance)]

\* vectorData
VectorData(memoryId, embedding, entry, playerId) ==
  LET metadata == createVectorMetadata(entry, playerId)
  IN [id |-> memoryId, values |-> embedding, hasMeta |-> TRUE,
      playerId |-> metadata.playerId, importance |-> metadata.importance]

\* the values bound to INSERT INTO memories
MemoryRow(memoryId, playerId, entry, importance) ==
  [id |-> memoryId, player_id |-> playerId, importance |-> importance,
   type |-> entry.type, action |-> entry.action, source |-> entry.source,
   text |-> EntryText(entry)]

\* the first effect at or after position i for which the loop of
\* storeMemories does not `continue`
RECURSIVE NextStored(_, _)
NextStored(effects, i) ==
  IF i > Len(effects) THEN i
  ELSE IF HasContent(effects[i]) THEN i
  ELSE NextStored(effects, i + 1)

\* the catch of storeMemories, were it to rethrow
OnStoreError_Rethrow(i) == [raised |-> TRUE, next |-> i]

\* the catch of storeMemories, were it to leave the loop
OnStoreError_Break(i) == [raised |-> FALSE, next |-> i + MaxBatch + 1]

\* catch (error) { console.error(...) }: the loop goes on with the next effect
OnStoreError(i) == [raised |-> FALSE, next |-> i + 1]

\* the index insert, were its rejection not awaited
AfterIndexInsert_Unchecked(outcome) == "db"

\* await env.MEMORIES_VECTORSTORE.insert: a rejection skips the statements
\* that follow in the try block
AfterIndexInsert(outcome) == IF outcome = "ok" THEN "db" ELSE "catch"

\* an INSERT that replaces the rows of the same player
InsertRow_Replacing(table, row) ==
  LET keep == SelectIdx(Len(table),
                {i \in 1..Len(table) : table[i].player_id # row.player_id})
  IN Append([i \in 1..Len(keep) |-> table[keep[i]]], row)

\* INSERT INTO memories (...) VALUES (...)
InsertRow(table, row) == Append(table, row)

\* MEMORIES_VECTORSTORE.insert([vectorData])
InsertVector(entries, vectorData) == Append(entries, vectorData)

\* interpretEffects of game.ts up to the call of storeMemories: the effects
\* it returns
InterpretedEffects(answer) ==
  IF answer.kind = "value" THEN validateAndProcessEffects(answer.effects).list
  ELSE <<>>

\* elements of the array an answer to interpretEffects of game.ts parses to:
\* the effects of concurrent invocations
StoreCandidates ==
  {Effect(Word("quest"), Word("start"), QuestData),
   Effect(Word("item"), Word("add"), ItemData)}

StoreArrays == UNION {[1..n -> StoreCandidates] : n \in 0..MaxConcurrent}

\* elements of the array of an answer: every type and both kinds of item
\* action
WriteBackCandidates ==
  StoreCandidates
    \cup {Effect(Word("item"), Word("remove"), ItemData),
          Effect(Word("item"), Word("use"), ItemData),
          Effect(Word("location"), Word("move"), LocationData),
          Effect(Word("status"), Word("update"), StatusData),
          Effect(Word("attribute"), Word("update"), AttributeData)}

WriteBackArrays == UNION {[1..n -> WriteBackCandidates] : n \in 0..MaxBatch}

\* the players whose actions are interpreted
ActingPlayers == {"p1"}

\* answers of env.AI.run to interpretEffects of game.ts, which hands the
\* response text to JSON.parse as it is
InterpretAnswers ==
  {Answer(k, NotAnArray) : k \in {"throw", "noresponse", "syntax"}}
    \cup {Answer("value", NotAnArray)}
    \cup {Answer("value", ParsedArray(items)) : items \in StoreArrays}

WriteBackAnswers ==
  {Answer("value", ParsedArray(items)) : items \in WriteBackArrays}

\* the effects storeMemories is called with
ToStore(proc) == MemoryEffects(proc.effects)

\* the memoryEntry storeMemories is working on
CurrentEntry(proc) == EffectEntry(proc.player, ToStore(proc)[proc.i])

\* storeMemories has returned (raised = FALSE) or thrown: interpretEffects
\* returns the effects, or [] from its outer catch
FinishInterpret(proc, raised) ==
  [proc EXCEPT !.pc = "done", !.raised = raised,
               !.result = IF raised THEN Returned(<<>>) ELSE Returned(proc.effects)]

\* the loop of storeMemories goes to its next iteration: the effects without
\* content are skipped, an id is drawn and the embedding is requested
ContinueStore(proc, step) ==
  LET j == NextStored(ToStore(proc), step.next)
  IN IF step.raised THEN FinishInterpret(proc, TRUE)
     ELSE IF j > Len(ToStore(proc)) THEN FinishInterpret(proc, FALSE)
     ELSE [proc EXCEPT !.pc = "embed", !.i = j, !.n = @ + 1,
                       !.embedded = Append(@, j)]

\* interpretEffects of game.ts from the answer of env.AI.run to the first
\* await of storeMemories
InterpretFrom(p, answers) ==
  /\ call = NoCall /\ extracted = NoExtract
  /\ procs[p] = Idle
  /\ \E player \in ActingPlayers, answer \in answers :
       LET effects == InterpretedEffects(answer)
           proc == [kind |-> "interpret", pc |-> "start", player |-> player,
                    answer |-> answer, effects |-> effects, i |-> 0, n |-> 0,
                    embedded |-> <<>>, raised |-> FALSE,
                    result |-> Returned(<<>>)]
       IN procs' = [procs EXCEPT ![p] =
            IF Len(MemoryEffects(effects)) > 0
              THEN ContinueStore(proc, [raised |-> FALSE, next |-> 1])
              ELSE FinishInterpret(proc, FALSE)]
  /\ UNCHANGED <<inventories, memories, index, call, batch, extracted>>

\* interpretEffects in one of several concurrent invocations
StartInterpret(p) == InterpretFrom(p, InterpretAnswers)

\* interpretEffects in a single invocation, for answers of every effect type
StartWriteBack == InterpretFrom(1, WriteBackAnswers)

\* storeMemories: env.AI.run for the embedding has answered
StoreEmbed(p) ==
  /\ call = NoCall /\ extracted = NoExtract
  /\ procs[p].kind = "interpret" /\ procs[p].pc = "embed"
  /\ \E outcome \in {"ok", "nodata", "throw"} :
       procs' = [procs EXCEPT ![p] =
         IF outcome = "ok" THEN [@ EXCEPT !.pc = "index"]
         ELSE ContinueStore(@, OnStoreError(@.i))]
  /\ UNCHANGED <<inventories, memories, index, call, batch, extracted>>

\* storeMemories: MEMORIES_VECTORSTORE.insert has answered
StoreIndexInsert(p) ==
  /\ call = NoCall /\ extracted = NoExtract
  /\ procs[p].kind = "interpret" /\ procs[p].pc = "index"
  /\ \E outcome \in {"ok", "throw"} :
       LET proc == procs[p]
           entry == CurrentEntry(proc)
           vectorData == VectorData(nanoid(p, proc.n), Embedding(EntryText(entry)),
                                    entry, proc.player)
       IN /\ index' = IF outcome = "ok" THEN InsertVector(index, vectorData)
                      ELSE index
          /\ procs' = [procs EXCEPT ![p] =
               IF AfterIndexInsert(outcome) = "db" THEN [@ EXCEPT !.pc = "db"]
               ELSE ContinueStore(@, OnStoreError(@.i))]
  /\ UNCHANGED <<inventories, memories, call, batch, extracted>>

\* storeMemories: INSERT INTO memories has answered
StoreDbInsert(p) ==
  /\ call = NoCall /\ extracted = NoExtract
  /\ procs[p].kind = "interpret" /\ procs[p].pc = "db"
  /\ \E outcome \in {"ok", "throw"} :
       LET proc == procs[p]
           entry == CurrentEntry(proc)
           row == MemoryRow(nanoid(p, proc.n), proc.player, entry, entry.importance)
       IN /\ memories' = IF outcome = "ok" THEN InsertRow(memories, row)
                         ELSE memories
          /\ procs' = [procs EXCEPT ![p] =
               IF outcome = "ok"
                 THEN ContinueStore(@, [raised |-> FALSE, next |-> @.i + 1])
                 ELSE ContinueStore(@, OnStoreError(@.i))]
  /\ UNCHANGED <<inventories, index, call, batch, extracted>>

\* entry.importance of a POST /game/memory body, in tenths: 0 (or a missing
\* property), 7
IngestImportances == {0, 70}

IngestContents == {<<"crystal">>, <<"merchant">>}

\* the entry of a POST /game/memory body; validTimestamp is FALSE when
\* new Date(entry.timestamp) is an invalid date
IngestEntries ==
  [type : {<<"event">>}, action : {<<>>}, content : IngestContents,
   location : {<<"cave">>}, importance : IngestImportances,
   validTimestamp : BOOLEAN, source : {"request"}]

NoEntry ==
  [type |-> <<>>, action |-> <<>>, content |-> <<>>, location |-> <<>>,
   importance |-> 0, validTimestamp |-> FALSE, source |-> "request"]

\* bodies of POST /game/memory: text that is no JSON, JSON null, an object
\* without entry, an object with playerId and entry
IngestBodies ==
  {[kind |-> k, playerId |-> "p1", entry |-> NoEntry] :
      k \in {"unparsable", "null", "noentry"}}
    \cup [kind : {"ok"}, playerId : Players, entry : IngestEntries]

IngestDone(proc, status) == [proc EXCEPT !.pc = "done", !.status = status]

\* POST /game/memory from request.json() to the await of the index insert:
\* the embedding is requested, the player is looked up, the metadata is built
StartIngest(p) ==
  /\ call = NoCall /\ extracted = NoExtract
  /\ procs[p] = Idle
  /\ \E body \in IngestBodies, emb \in {"ok", "nodata", "throw"},
        player \in {"found", "notfound", "throw"} :
       LET proc == [kind |-> "ingest", pc |-> "index", player |-> body.playerId,
                    entry |-> body.entry, n |-> 1, status |-> 0]
       IN procs' = [procs EXCEPT ![p] =
            IF body.kind # "ok" THEN IngestDone(proc, 500)
            ELSE IF emb # "ok" THEN IngestDone(proc, 500)
            ELSE IF player = "throw" THEN IngestDone(proc, 500)
            ELSE IF player = "notfound" THEN IngestDone(proc, 404)
            ELSE IF MetadataRaises(body.entry) THEN IngestDone(proc, 500)
            ELSE proc]
  /\ UNCHANGED <<inventories, memories, index, call, batch, extracted>>

\* POST /game/memory: MEMORIES_VECTORSTORE.insert has answered
IngestIndexInsert(p) ==
  /\ call = NoCall /\ extracted = NoExtract
  /\ procs[p].kind = "ingest" /\ procs[p].pc = "index"
  /\ \E outcome \in {"ok", "throw"} :
       LET proc == procs[p]
           vectorData == VectorData(nanoid(p, proc.n),
                                    Embedding(EntryText(proc.entry)),
                                    proc.entry, proc.player)
       IN /\ index' = IF outcome = "ok" THEN InsertVector(index, vectorData)
                      ELSE index
          /\ procs' = [procs EXCEPT ![p] =
               IF AfterIndexInsert(outcome) = "db" THEN [@ EXCEPT !.pc = "db"]
               ELSE IngestDone(@, 500)]
  /\ UNCHANGED <<inventories, memories, call, batch, extracted>>

\* POST /game/memory: INSERT INTO memories has answered, then the query that
\* verifies the entry
IngestDbInsert(p) ==
  /\ call = NoCall /\ extracted = NoExtract
  /\ procs[p].kind = "ingest" /\ procs[p].pc = "db"
  /\ \E outcome \in {"ok", "throw"}, verify \in {"ok", "throw"} :
       LET proc == procs[p]
           row == MemoryRow(nanoid(p, proc.n), proc.player, proc.entry,
                            OrDefaultImportance(proc.entry.importance))
       IN /\ memories' = IF outcome = "ok" THEN InsertRow(memories, row)
                         ELSE memories
          /\ procs' = [procs EXCEPT ![p] =
               IF outcome = "ok" /\ verify = "ok" THEN IngestDone(@, 200)
               ELSE IngestDone(@, 500)]
  /\ UNCHANGED <<inventories, index, call, batch, extracted>>

\* answers of env.AI.run to generateStoryResponse: raw tells whether the
\* response text is blank once cleaned and trimmed, story is the story
\* property of the parsed value ("text" for a string that is not empty).
\* A text that parses after the quotes were rewritten (game.ts:107-114) has
\* no property name in it ({}, [], 5, true), so its value has no story.
StoryAnswer(kind, effects, story, raw) ==
  [kind |-> kind, effects |-> effects, story |-> story, raw |-> raw]

StoryAnswers ==
  {StoryAnswer(k, NotAnArray, "missing", "nonblank") :
      k \in {"throw", "noresponse", "nonstring", "null"}}
    \cup {StoryAnswer(k, NotAnArray, "missing", raw) :
            k \in {"nomatch", "syntax"}, raw \in {"blank", "nonblank"}}
    \cup {StoryAnswer("value", effects, story, "nonblank") :
            effects \in {NotAnArray} \cup {ParsedArray(items) : items \in ParsedArrays},
            story \in {"missing"}}

\* bodies of POST /game/action: text that is no JSON, JSON null, an object
\* without the context property, with a context that has no gameHistory,
\* with a full context
ActionBodies ==
  [kind : {"unparsable", "null"}, playerId : {"p1"}, context : {"missing"}]
    \cup [kind : {"ok"}, playerId : Players,
          context : {"ok", "nohistory", "missing"}]

\* the story property of the value generateStoryResponse returns
StoryOf(answer, from) ==
  IF from = "lost" THEN "text"
  ELSE IF from = "response" THEN (IF answer.raw = "blank" THEN "empty" ELSE "text")
  ELSE answer.story

\* the Response of POST /game/action; retrieved is what
\* retrieveRelevantMemories gave to generateStoryResponse
ActionResponse(body, retrieved, answer) ==
  LET g == generateStoryResponse(answer)
  IN IF body.kind # "ok"
       THEN [status |-> 500, story |-> "missing", effects |-> <<>>]
     ELSE IF body.context \in {"missing", "nohistory"} \/ retrieved.raised
       THEN [status |-> 200, story |-> "text", effects |-> <<>>]
     ELSE [status |-> 200, story |-> StoryOf(answer, g.story), effects |-> g.list]

\* POST /game/action: request.json(), generateStoryResponse and its
\* retrieveRelevantMemories call, made while no other invocation is between
\* two awaits; storeMemories runs only for a non-empty toStore, which no
\* answer of StoryAnswers yields
PostAction ==
  /\ call = NoCall /\ extracted = NoExtract
  /\ \A p \in Procs : procs[p].pc \in {"idle", "done"}
  /\ \E body \in ActionBodies, answer \in StoryAnswers, emb \in EmbeddingOutcomes :
       LET req == [playerId |-> body.playerId, hasLimit |-> TRUE, limit |-> 3]
       IN \E db \in DbOutcomes(memories, req) :
            \E vs \in {[kind |-> "throw", matches |-> <<>>],
                       [kind |-> "nomatches", matches |-> <<>>]} :
              /\ generateStoryResponse(answer).toStore = <<>>
              /\ extracted' =
                   [kind |-> "action", body |-> body, answer |-> answer,
                    response |-> ActionResponse(body,
                                   retrieveRelevantMemories(req, db, emb, vs),
                                   answer)]
  /\ UNCHANGED <<inventories, memories, index, procs, call, batch>>

\* similarity of a vector with itself, in tenths
IdenticalScore == 10

\* similarity of two vectors of different texts, in tenths
OtherScores == {8}

QueryActions == {<<"crystal">>, <<"look">>}

\* requests of POST /game/memory/context against the stores
StoreRequests ==
  [playerId : ActingPlayers, hasLimit : {TRUE}, limit : 1..MaxLimit,
   location : {<<"cave">>}, action : QueryActions]

\* `${location} ${action}`
QueryText(req) == req.location \o <<" ">> \o req.action

\* answers of MEMORIES_VECTORSTORE.query(vector, {topK}): the topK entries
\* nearest to the vector, nearest first; an entry with the same vector has
\* the highest similarity, entries of equal similarity come in any order
IndexAnswers(entries, vector, topK) ==
  LET n == Len(entries)
      k == Min(n, topK)
      scorings == {sc \in [1..n -> OtherScores \cup {IdenticalScore}] :
                     \A i \in 1..n :
                       (entries[i].values = vector) <=> (sc[i] = IdenticalScore)}
      orders(sc) == {o \in [1..k -> 1..n] :
                       /\ \A i, j \in 1..k : i < j =>
                            o[i] # o[j] /\ sc[o[i]] >= sc[o[j]]
                       /\ \A m \in 1..n : (\A i \in 1..k : o[i] # m) =>
                            \A i \in 1..k : sc[o[i]] >= sc[m]}
  IN UNION {{[i \in 1..k |->
               [id |-> entries[o[i]].id, score |-> sc[o[i]],
                hasMeta |-> entries[o[i]].hasMeta,
                playerId |-> entries[o[i]].playerId,
                importance |-> entries[o[i]].importance]] : o \in orders(sc)}
            : sc \in scorings}

\* POST /game/memory/context: one retrieveRelevantMemories call against the
\* two stores, made while no other invocation is between two awaits
RetrieveStored ==
  /\ call = NoCall /\ extracted = NoExtract
  /\ \A p \in Procs : procs[p].pc \in {"idle", "done"}
  /\ \E req \in StoreRequests, emb \in EmbeddingOutcomes :
       \E db \in DbOutcomes(memories, req) :
         \E vs \in (IF db.kind # "throw" /\ emb = "ok"
                      THEN {[kind |-> "throw", matches |-> <<>>]}
                             \cup {[kind |-> "ok", matches |-> ms] :
                                     ms \in IndexAnswers(index,
                                              Embedding(QueryText(req)),
                                              TopK(RequestLimit(req)))}
                      ELSE {[kind |-> "notcalled", matches |-> <<>>]}) :
           call' = [kind |-> "retrieve", req |-> req, db |-> db, emb |-> emb,
                    vs |-> vs,
                    result |-> retrieveRelevantMemories(req, db, emb, vs)]
  /\ UNCHANGED <<inventories, memories, index, procs, batch, extracted>>

InitStore ==
  /\ inventories = NoInventories
  /\ memories = <<>>
  /\ index = <<>>
  /\ procs = NoProcs
  /\ call = NoCall
  /\ batch = <<>>
  /\ extracted = NoExtract

NextStore ==
  \/ \E p \in Procs :
       \/ StartInterpret(p)
       \/ StoreEmbed(p)
       \/ StoreIndexInsert(p)
       \/ StoreDbInsert(p)
       \/ StartIngest(p)
       \/ IngestIndexInsert(p)
       \/ IngestDbInsert(p)

SpecStore == InitStore /\ [][NextStore]_vars

\* one interpretEffects and one POST /game/memory, concurrent, then one
\* POST /game/memory/context
NextRoundTrip ==
  \/ StartInterpret(1)
  \/ StoreEmbed(1)
  \/ StoreIndexInsert(1)
  \/ StoreDbInsert(1)
  \/ StartIngest(2)
  \/ IngestIndexInsert(2)
  \/ IngestDbInsert(2)
  \/ RetrieveStored

SpecRoundTrip == InitStore /\ [][NextRoundTrip]_vars

\* one POST /game/action
SpecAction == InitStore /\ [][PostAction]_vars

\* ------------------------------------------------------------------------
\* The text of a generator answer: cleaning and JSON.parse
\* ------------------------------------------------------------------------
\* A text is a sequence of tokens: the characters [ ] { } : , " \ and blank,
\* "^C" for a control character, one-character tokens (letters "S" "s", "!",
\* "~e", digits) and words of two or more lowercase letters.
Quote == "\""

Backslash == "\\"

Control == "^C"

Digits == {"0", "1", "3", "5"}

Structural == {"[", "]", "{", "}", ":", ","}

OneCharTokens ==
  Structural \cup Digits \cup {Quote, Backslash, " ", Control, "S", "s", "!", "~e"}

\* String.prototype.replace with a g flag, where what a position of the text
\* is replaced by is known from the characters around it: the text put
\* together from the replacements of its positions lo..hi
RECURSIVE Flatten(_, _, _)
Flatten(parts, lo, hi) ==
  IF lo > hi THEN <<>>
  ELSE IF lo = hi THEN parts[lo]
  ELSE Flatten(parts, lo, (lo + hi) \div 2) \o Flatten(parts, (lo + hi) \div 2 + 1, hi)

Replace(text, At(_, _)) ==
  Flatten([i \in 1..Len(text) |-> At(text, i)], 1, Len(text))

\* .replace(/[\u0000-\u001F\u007F-\u009F]+/g, '')
RemoveControl(text) ==
  LET At(t, i) == IF t[i] = Control THEN <<>> ELSE <<t[i]>>
  IN Replace(text, At)

\* .replace(/\s+/g, ' ')
CollapseSpaces(text) ==
  LET At(t, i) == IF t[i] = " " /\ i > 1 /\ t[i - 1] = " " THEN <<>> ELSE <<t[i]>>
  IN Replace(text, At)

\* .replace(/\\"/g, '"')
UnescapeQuotes(text) ==
  LET At(t, i) ==
        IF t[i] = Backslash /\ i < Len(t) /\ t[i + 1] = Quote THEN <<>> ELSE <<t[i]>>
  IN Replace(text, At)

\* .replace(/"{2,}/g, '"')
CollapseQuotes(text) ==
  LET At(t, i) == IF t[i] = Quote /\ i > 1 /\ t[i - 1] = Quote THEN <<>> ELSE <<t[i]>>
  IN Replace(text, At)

\* /([^\\])"([^:,}\]])/g matches at the quote of position i: a character
\* other than \ is before it and a character other than : , } ] after it, and
\* the character before it is not the one the match before took as its $2
\* (of a word of several letters a match takes the first or the last only)
RECURSIVE ValueQuoteMatch(_, _)
ValueQuoteMatch(text, i) ==
  /\ i > 1 /\ i < Len(text)
  /\ text[i] = Quote
  /\ text[i - 1] # Backslash
  /\ text[i + 1] \notin {":", ",", "}", "]"}
  /\ ~(text[i - 1] \in OneCharTokens /\ ValueQuoteMatch(text, i - 2))

\* .replace(/([^\\])"([^:,}\]])/g, '$1\\"$2')
EscapeValueQuotes(text) ==
  LET At(t, i) == IF ValueQuoteMatch(t, i) THEN <<Backslash, Quote>> ELSE <<t[i]>>
  IN Replace(text, At)

\* cleanedResponse of generateStoryResponse (game.ts)
CleanedResponse4(text) ==
  Trim(EscapeValueQuotes(
         CollapseQuotes(UnescapeQuotes(CollapseSpaces(RemoveControl(text))))))

\* A parsed JSON value: t is "undef", "null", "num", "str", "bool", "arr" or
\* "obj"; an array has its elements in items, an object its keys in keys and
\* their values, in the same order, in items.
PValue(t, n, s, items, keys) == [t |-> t, n |-> n, s |-> s, items |-> items, keys |-> keys]

PUndef == PValue("undef", 0, <<>>, <<>>, <<>>)

PNull == PValue("null", 0, <<>>, <<>>, <<>>)

PNum(n) == PValue("num", n, <<>>, <<>>, <<>>)

PStr(s) == PValue("str", 0, s, <<>>, <<>>)

PBool(b) == PValue("bool", IF b THEN 1 ELSE 0, <<>>, <<>>, <<>>)

PArr(items) == PValue("arr", 0, <<>>, items, <<>>)

PObj(keys, items) == PValue("obj", 0, <<>>, items, keys)

\* value.key: of a repeated key the last value; undefined when value has no
\* such property
Get(value, key) ==
  LET at == {i \in 1..Len(value.keys) : value.keys[i] = <<key>>}
  IN IF value.t # "obj" \/ at = {} THEN PUndef
     ELSE value.items[CHOOSE i \in at : \A j \in at : j <= i]

\* the outcome of reading a value from a position of the text
Read(v, next) == [ok |-> TRUE, v |-> v, next |-> next]

SyntaxError == [ok |-> FALSE, v |-> PUndef, next |-> 0]

DigitValue(tok) ==
  CASE tok = "0" -> 0 [] tok = "1" -> 1 [] tok = "3" -> 3 [] tok = "5" -> 5
    [] OTHER -> 0

\* the words whose first letter is one of b f n r t u
EscapeLetterWords ==
  {"type", "true", "null", "name", "npc", "remove", "update", "use"}

\* of these the ones with u: JSON.parse wants four hexadecimal digits after \u
UnicodeEscapeWords == {"update", "use"}

RECURSIVE SkipWs(_, _)
SkipWs(text, i) ==
  IF i <= Len(text) /\ text[i] = " " THEN SkipWs(text, i + 1) ELSE i

\* the characters of a string, from the position after its opening quote
RECURSIVE ParseString(_, _, _)
ParseString(text, i, acc) ==
  IF i > Len(text) THEN SyntaxError
  ELSE IF text[i] = Quote THEN Read(PStr(acc), i + 1)
  ELSE IF text[i] = Control THEN SyntaxError
  ELSE IF text[i] = Backslash
    THEN IF i + 1 > Len(text) THEN SyntaxError
         ELSE IF text[i + 1] \in {Quote, Backslash}
           THEN ParseString(text, i + 2, Append(acc, text[i + 1]))
         ELSE IF text[i + 1] \in EscapeLetterWords \ UnicodeEscapeWords
           \* \t, \n, \r: a control character, then the other letters of the word
           THEN ParseString(text, i + 2, acc \o <<Control, text[i + 1]>>)
         ELSE SyntaxError
  ELSE ParseString(text, i + 1, Append(acc, text[i]))

\* the digits of a number, from its first digit; a number of several digits
\* does not begin with 0
RECURSIVE ParseNumber(_, _, _)
ParseNumber(text, i, acc) ==
  IF i <= Len(text) /\ text[i] \in Digits
    THEN ParseNumber(text, i + 1, acc * 10 + DigitValue(text[i]))
  ELSE Read(PNum(acc), i)

RECURSIVE ParseValue(_, _)
RECURSIVE ParseElements(_, _, _)
RECURSIVE ParseMembers(_, _, _, _)
ParseValue(text, i) ==
  LET j == SkipWs(text, i)
  IN IF j > Len(text) THEN SyntaxError
     ELSE IF text[j] = "["
       THEN LET k == SkipWs(text, j + 1)
            IN IF k <= Len(text) /\ text[k] = "]" THEN Read(PArr(<<>>), k + 1)
               ELSE ParseElements(text, k, <<>>)
     ELSE IF text[j] = "{"
       THEN LET k == SkipWs(text, j + 1)
            IN IF k <= Len(text) /\ text[k] = "}" THEN Read(PObj(<<>>, <<>>), k + 1)
               ELSE ParseMembers(text, k, <<>>, <<>>)
     ELSE IF text[j] = Quote THEN ParseString(text, j + 1, <<>>)
     ELSE IF text[j] \in Digits
       THEN IF text[j] = "0" /\ j + 1 <= Len(text) /\ text[j + 1] \in Digits
              THEN SyntaxError
            ELSE ParseNumber(text, j, 0)
     ELSE IF text[j] = "null" THEN Read(PNull, j + 1)
     ELSE IF text[j] = "true" THEN Read(PBool(TRUE), j + 1)
     ELSE SyntaxError

ParseElements(text, i, acc) ==
  LET r == ParseValue(text, i)
      k == SkipWs(text, r.next)
  IN IF ~r.ok \/ k > Len(text) THEN SyntaxError
     ELSE IF text[k] = "," THEN ParseElements(text, k + 1, Append(acc, r.v))
     ELSE IF text[k] = "]" THEN Read(PArr(Append(acc, r.v)), k + 1)
     ELSE SyntaxError

ParseMembers(text, i, keys, items) ==
  LET k == SkipWs(text, i)
      key == IF k <= Len(text) /\ text[k] = Quote
               THEN ParseString(text, k + 1, <<>>) ELSE SyntaxError
      c == SkipWs(text, key.next)
      r == IF key.ok /\ c <= Len(text) /\ text[c] = ":"
             THEN ParseValue(text, c + 1) ELSE SyntaxError
      e == SkipWs(text, r.next)
  IN IF ~r.ok \/ e > Len(text) THEN SyntaxError
     ELSE IF text[e] = ","
       THEN ParseMembers(text, e + 1, Append(keys, key.v.s), Append(items, r.v))
     ELSE IF text[e] = "}"
       THEN Read(PObj(Append(keys, key.v.s), Append(items, r.v)), e + 1)
     ELSE SyntaxError

\* JSON.parse: the whole text is one value
JSONparse(text) ==
  LET Of(r) == IF r.ok /\ SkipWs(text, r.next) > Len(text) THEN r ELSE SyntaxError
  IN Of(ParseValue(text, 1))

\* .replace(/\\/g, '\\\\')
DoubleBackslashes(text) ==
  LET At(t, i) == IF t[i] = Backslash THEN <<Backslash, Backslash>> ELSE <<t[i]>>
  IN Replace(text, At)

\* .replace(/(?<!\\)"/g, '\\"')
EscapeUnescapedQuotes(text) ==
  LET At(t, i) ==
        IF t[i] = Quote /\ (i = 1 \/ t[i - 1] # Backslash)
          THEN <<Backslash, Quote>> ELSE <<t[i]>>
  IN Replace(text, At)

\* the backslashes in a row from position i on
RECURSIVE BackslashesFrom(_, _)
BackslashesFrom(text, i) ==
  IF i <= Len(text) /\ text[i] = Backslash THEN 1 + BackslashesFrom(text, i + 1)
  ELSE 0

\* position i is where a row of backslashes begins
BeginsBackslashes(text, i) ==
  text[i] = Backslash /\ (i = 1 \/ text[i - 1] # Backslash)

\* .replace(/\\{3,}/g, '\\\\')
CollapseBackslashes(text) ==
  LET At(t, i) ==
        IF t[i] # Backslash THEN <<t[i]>>
        ELSE IF ~BeginsBackslashes(t, i) THEN <<>>
        ELSE IF BackslashesFrom(t, i) >= 3 THEN <<Backslash, Backslash>>
        ELSE SubSeq(t, i, i + BackslashesFrom(t, i) - 1)
  IN Replace(text, At)

\* cleanedResponse of interpretEffects (player.ts)
CleanedResponse5(text) ==
  Trim(CollapseBackslashes(EscapeUnescapedQuotes(DoubleBackslashes(
         CollapseSpaces(RemoveControl(text))))))

\* text.match(/\[[\s\S]*\]/) and text.match(/\{[\s\S]*\}/): from the first
\* opening bracket to the last closing one after it; <<>> stands for no match
\* (a match has two characters at least)
GreedyMatch(text, open, close) ==
  LET opens == {i \in 1..Len(text) : text[i] = open}
      first == CHOOSE i \in opens : \A j \in opens : i <= j
      closes == {i \in 1..Len(text) : text[i] = close /\ i > first}
      last == CHOOSE i \in closes : \A j \in closes : j <= i
  IN IF opens = {} \/ closes = {} THEN <<>> ELSE SubSeq(text, first, last)

\* /([^\\])\\([^"\\\/bfnrtu])/g matches at the backslash of position i: it
\* stands between a character other than \ and a character JSON does not
\* allow after a backslash, and the character before it is not the one the
\* match before took as its $2
RECURSIVE InvalidEscapeMatch(_, _)
InvalidEscapeMatch(text, i) ==
  /\ i > 1 /\ i < Len(text)
  /\ text[i] = Backslash
  /\ text[i - 1] # Backslash
  /\ text[i + 1] \notin {Quote, Backslash} \cup EscapeLetterWords
  /\ ~(text[i - 1] \in OneCharTokens /\ InvalidEscapeMatch(text, i - 2))

\* .replace(/([^\\])\\([^"\\\/bfnrtu])/g, '$1$2')
RemoveInvalidEscapes(text) ==
  LET At(t, i) == IF InvalidEscapeMatch(t, i) THEN <<>> ELSE <<t[i]>>
  IN Replace(text, At)

\* .replace(/\\+"/g, '\\"'): of a row of backslashes before a quote the
\* last one stays
FixQuoteEscaping(text) ==
  LET At(t, i) ==
        IF /\ t[i] = Backslash
           /\ i + BackslashesFrom(t, i) <= Len(t)
           /\ t[i + BackslashesFrom(t, i)] = Quote
           /\ BackslashesFrom(t, i) > 1
          THEN <<>> ELSE <<t[i]>>
  IN Replace(text, At)

\* jsonStr of interpretEffects after its additional cleaning
JsonStr5(match) == FixQuoteEscaping(RemoveInvalidEscapes(match))

\* ------------------------------------------------------------------------
\* From a parsed value to what the validators read of it
\* ------------------------------------------------------------------------
ToScalar(v) ==
  IF v.t = "arr" THEN JArr ELSE IF v.t = "obj" THEN JObj
  ELSE [t |-> v.t, n |-> v.n, s |-> v.s]

ToObjective(v) ==
  Objective(v.t = "null", ToScalar(Get(v, "id")), ToScalar(Get(v, "description")),
            ToScalar(Get(v, "type")), ToScalar(Get(v, "progress")),
            ToScalar(Get(v, "required")), ToScalar(Get(v, "status")))

ToReward(v) ==
  Reward(v.t = "null", ToScalar(Get(v, "type")), ToScalar(Get(v, "amount")),
         ToScalar(Get(v, "item")))

ToObjectives(v) ==
  IF v.t = "undef" THEN NoList
  ELSE IF v.t # "arr" THEN NotAList
  ELSE ListOf([i \in 1..Len(v.items) |-> ToObjective(v.items[i])])

ToRewards(v) ==
  IF v.t = "undef" THEN NoList
  ELSE IF v.t # "arr" THEN NotAList
  ELSE ListOf([i \in 1..Len(v.items) |-> ToReward(v.items[i])])

ToProperties(v) ==
  IF ~Truthy(ToScalar(v)) THEN NoProperties
  ELSE IF v.t # "obj" THEN [NoProperties EXCEPT !.kind = "prim"]
  ELSE [kind |-> "obj", damage |-> ToScalar(Get(v, "damage")),
        defense |-> ToScalar(Get(v, "defense")),
        healing |-> ToScalar(Get(v, "healing")),
        durability |-> ToScalar(Get(v, "durability")),
        uses |-> ToScalar(Get(v, "uses")), effects |-> ToScalar(Get(v, "effects"))]

ToData(v) ==
  IF ~Truthy(ToScalar(v)) THEN NoData
  ELSE IF v.t # "obj" THEN PrimData
  ELSE [kind |-> "obj", id |-> ToScalar(Get(v, "id")),
        name |-> ToScalar(Get(v, "name")), type |-> ToScalar(Get(v, "type")),
        rarity |-> ToScalar(Get(v, "rarity")),
        quantity |-> ToScalar(Get(v, "quantity")),
        value |-> ToScalar(Get(v, "value")),
        properties |-> ToProperties(Get(v, "properties")),
        title |-> ToScalar(Get(v, "title")),
        description |-> ToScalar(Get(v, "description")),
        difficulty |-> ToScalar(Get(v, "difficulty")),
        objectives |-> ToObjectives(Get(v, "objectives")),
        rewards |-> ToRewards(Get(v, "rewards")),
        duration |-> ToScalar(Get(v, "duration")),
        isTemporary |-> ToScalar(Get(v, "isTemporary")),
        progress |-> ToScalar(Get(v, "progress"))]

ToEffect(v) ==
  IF v.t \notin {"obj", "arr"} THEN PrimEffect
  ELSE Effect(ToScalar(Get(v, "type")), ToScalar(Get(v, "action")),
              ToData(Get(v, "data")))

ToParsedEffects(v) ==
  IF v.t # "arr" THEN NotAnArray
  ELSE ParsedArray([i \in 1..Len(v.items) |-> ToEffect(v.items[i])])

\* ------------------------------------------------------------------------
\* The two workers on the text of an answer
\* ------------------------------------------------------------------------
\* interpretEffects (player.ts) from the response string on
AnswerOfText5(text) ==
  LET Parsed(r) ==
        IF ~r.ok THEN Answer("syntax", NotAnArray)
        ELSE Answer("value", ToParsedEffects(r.v))
      Of(match) ==
        IF text = <<>> THEN Answer("noresponse", NotAnArray)
        ELSE IF match = <<>> THEN Answer("nomatch", NotAnArray)
        ELSE Parsed(JSONparse(JsonStr5(match)))
  IN Of(GreedyMatch(CleanedResponse5(text), "[", "]"))

\* parsed of generateStoryResponse (game.ts): JSON.parse of the cleaned text
\* and, when that fails, of the part between its first { and its last }
Parsed4(text) ==
  LET OfMatch(match) == IF match = <<>> THEN SyntaxError ELSE JSONparse(match)
      Of(cleaned, direct) ==
        IF direct.ok THEN direct ELSE OfMatch(GreedyMatch(cleaned, "{", "}"))
      OfCleaned(cleaned) == Of(cleaned, JSONparse(cleaned))
  IN OfCleaned(CleanedResponse4(text))

\* parsed.effects || []
EffectsOrEmpty(parsed) ==
  LET Of(e) == IF Truthy(ToScalar(e)) THEN ToParsedEffects(e) ELSE ParsedArray(<<>>)
  IN Of(Get(parsed, "effects"))

AnswerOfText4(text) ==
  LET Of(r) ==
        IF text = <<>> THEN Answer("noresponse", NotAnArray)
        ELSE IF ~r.ok THEN Answer("syntax", NotAnArray)
        ELSE IF r.v.t = "null" THEN Answer("null", NotAnArray)
        ELSE Answer("value", EffectsOrEmpty(r.v))
  IN Of(Parsed4(text))

\* the story generateStoryResponse returns for a text it could not parse
StoryOnParseError_Raw(text) == text

StoryOnParseError(text) == Trim(RemoveControl(text))

\* ------------------------------------------------------------------------
\* Texts of generator answers
\* ------------------------------------------------------------------------
\* "w"
Quoted(w) == <<Quote>> \o w \o <<Quote>>

\* "key":value
Member(key, value) == Quoted(<<key>>) \o <<":">> \o value

\* {"type":"...","action":"...","data":{...}}
EffectText(type, action, data) ==
  <<"{">> \o Member("type", Quoted(<<type>>)) \o <<",">>
    \o Member("action", Quoted(<<action>>)) \o <<",">>
    \o Member("data", <<"{">> \o data \o <<"}">>) \o <<"}">>

\* a quest effect generateStoryResponse of game.ts accepts
QuestEffectText ==
  EffectText("quest", "start",
    Member("id", Quoted(<<"cave">>)) \o <<",">> \o Member("progress", <<"1">>))

\* a location effect interpretEffects of player.ts accepts
LocationEffectText ==
  EffectText("location", "update",
    Member("name", Quoted(<<"cave">>)) \o <<",">>
      \o Member("description", Quoted(<<"S", " ", "cave">>)))

StoryText == Quoted(<<"S", " ", "cave", "!">>)

\* what the prompts ask the generator for: an array of effects (player.ts),
\* an object with a story and effects (game.ts)
EffectsPayload == <<"[">> \o LocationEffectText \o <<"]">>

StoryPayload ==
  <<"{">> \o Member("story", StoryText) \o <<",">>
    \o Member("effects", <<"[">> \o QuestEffectText \o <<"]">>) \o <<"}">>

\* the payload as a generator prints it on several lines: a line break and
\* two blanks after every [ { and ,
RECURSIVE Pretty(_)
Pretty(text) ==
  IF text = <<>> THEN <<>>
  ELSE IF Head(text) \in {"[", "{", ","}
    THEN <<Head(text), Control, " ", " ">> \o Pretty(Tail(text))
  ELSE <<Head(text)>> \o Pretty(Tail(text))

\* texts that are JSON
JsonPayloads ==
  {EffectsPayload, Pretty(EffectsPayload), StoryPayload, Pretty(StoryPayload),
   <<"{">> \o Member("story", StoryText) \o <<"}">>,
   <<"[", "]">>, <<"{", "}">>, <<"[", "5", "]">>, <<"null">>, StoryText}

\* texts that are no JSON: a sentence, a sentence with a line break, an
\* object that is cut off
ProsePayloads ==
  {<<"S", " ", "cave", "!">>, <<"S", Control, "cave">>,
   <<"{">> \o Member("story", <<Quote, "S", " ", "cave">>)}

Payloads == JsonPayloads \cup ProsePayloads

\* what surrounds the payload in the text of an answer
MaxDecoration == 1

Decorations == UNION {[1..n -> {Control, " ", Quote}] : n \in 0..MaxDecoration}

\* the effects a worker returns for a payload that is handed to JSON.parse
\* and to the worker's validator as it is
PayloadEffects5(payload) ==
  LET Of(r) ==
        IF r.ok THEN interpretEffects(Answer("value", ToParsedEffects(r.v))).list
        ELSE <<>>
  IN Of(JSONparse(payload))

PayloadEffects4(payload) ==
  LET Of(r) ==
        IF r.ok /\ r.v.t # "null"
          THEN validateAndProcessEffects(EffectsOrEmpty(r.v)).list
        ELSE <<>>
  IN Of(JSONparse(payload))

\* the invocation that works on a text
TextInvocation == 3

StoreOutcomes == {"stored", "indexed", "failed"}

\* storeMemories for the invocation of a text, from effect i on: an effect
\* with content is embedded, put into the index and into the table; outcomes
\* tells how far each one gets
RECURSIVE storeMemories(_, _, _, _, _)
storeMemories(st, playerId, effects, outcomes, i) ==
  IF i > Len(effects) THEN st
  ELSE IF ~HasContent(effects[i]) \/ outcomes[i] = "failed"
    THEN storeMemories(st, playerId, effects, outcomes, i + 1)
  ELSE LET entry == EffectEntry(playerId, effects[i])
           id == nanoid(TextInvocation, i)
           vectorData == VectorData(id, Embedding(EntryText(entry)), entry, playerId)
           row == MemoryRow(id, playerId, entry, entry.importance)
       IN storeMemories(
            [index |-> InsertVector(st.index, vectorData),
             memories |-> IF outcomes[i] = "stored"
                            THEN InsertRow(st.memories, row) ELSE st.memories],
            playerId, effects, outcomes, i + 1)

LostInThought == <<"The dungeon master seems lost in thought...">>

\* the story property of what generateStoryResponse returns for a text
StoryOfText(text) ==
  LET Of(r) ==
        IF text = <<>> THEN JStr(LostInThought)
        ELSE IF ~r.ok \/ r.v.t = "null" THEN JStr(StoryOnParseError(text))
        ELSE ToScalar(Get(r.v, "story"))
  IN Of(Parsed4(text))

InitText ==
  /\ inventories = NoInventories
  /\ memories = <<>>
  /\ index = <<>>
  /\ procs = NoProcs
  /\ call = NoCall
  /\ batch = <<>>
  /\ extracted \in {[kind |-> "text", text |-> pre \o payload \o post,
                     payload |-> payload] :
                      payload \in Payloads, pre \in Decorations, post \in Decorations}

\* interpretEffects (player.ts) on the text of an answer
InterpretText ==
  /\ extracted.kind = "text"
  /\ \E answer \in {AnswerOfText5(extracted.text)} :
       extracted' = [kind |-> "interpreted", text |-> extracted.text,
                     payload |-> extracted.payload,
                     parsed |-> answer.kind,
                     list |-> interpretEffects(answer).list]
  /\ UNCHANGED <<inventories, memories, index, procs, call, batch>>

\* generateStoryResponse (game.ts) on the text of an answer, storeMemories
\* included
GenerateStoryFromText ==
  /\ extracted.kind = "text"
  /\ \E playerId \in ActingPlayers, answer \in {AnswerOfText4(extracted.text)} :
       \E g \in {generateStoryResponse(answer)} :
         \E outcomes \in [1..Len(g.toStore) -> StoreOutcomes] :
           \E st \in {storeMemories([index |-> index, memories |-> memories],
                                    playerId, g.toStore, outcomes, 1)} :
             /\ memories' = st.memories
             /\ index' = st.index
             /\ extracted' = [kind |-> "told", text |-> extracted.text,
                              payload |-> extracted.payload,
                              parsed |-> answer.kind,
                              story |-> StoryOfText(extracted.text),
                              list |-> g.list]
  /\ UNCHANGED <<inventories, procs, call, batch>>

NextText == InterpretText \/ GenerateStoryFromText

SpecText == InitText /\ [][NextText]_vars

\* ------------------------------------------------------------------------
\* The similarity index shared by the players
\* ------------------------------------------------------------------------
\* entries of other players in the index
MaxOthers == 20

OthersCounts == {0, 1, MaxOthers}

OtherPlayer(p) == CHOOSE q \in Players : q # p

\* the similarity other players' entries have to the query: the highest one
OthersScore == CHOOSE s \in Scores : \A t \in Scores : t <= s

\* n index entries of another player, with their similarity to the query
OthersEntries(p, n) ==
  [i \in 1..n |-> [id |-> MaxMatches + i, score |-> OthersScore, hasMeta |-> TRUE,
                   playerId |-> OtherPlayer(p), importance |-> 8]]

\* index entries of player p, with their similarity to the query
OwnLists(p) ==
  {ms \in MatchLists(MaxMatches) :
     \A i \in 1..Len(ms) : ms[i].hasMeta /\ ms[i].playerId = p}

\* MEMORIES_VECTORSTORE.query(embedding, {topK}): the topK entries nearest to
\* the query, nearest first
IndexQuery(entries, topK) ==
  LET answer == Slice(StableSortDesc(entries, [i \in 1..Len(entries) |-> entries[i].score]),
                      topK)
  IN [kind |-> IF answer = <<>> THEN "nomatches" ELSE "ok", matches |-> answer]

\* retrieveRelevantMemories for a player whose entries share the index with
\* n entries of another player; alone is what the same call returns when the
\* index holds the player's entries only
RetrieveBeside ==
  /\ call = NoCall
  /\ extracted = NoExtract
  /\ \E req \in Requests, n \in OthersCounts :
       \E own \in OwnLists(req.playerId),
          rows \in DbQueryAnswers(memories, req.playerId, RequestLimit(req)) :
         LET db == [kind |-> "ok", rows |-> rows]
             topK == TopK(RequestLimit(req))
             shared == own \o OthersEntries(req.playerId, n)
         IN call' = [kind |-> "isolation", req |-> req, db |-> db, own |-> own,
                     others |-> n,
                     result |-> retrieveRelevantMemories(
                                  req, db, "ok", IndexQuery(shared, topK)),
                     alone |-> retrieveRelevantMemories(
                                 req, db, "ok", IndexQuery(own, topK))]
  /\ UNCHANGED <<inventories, memories, index, procs, batch, extracted>>

SpecIsolation == InitRetrieve /\ [][RetrieveBeside]_vars

\* ------------------------------------------------------------------------
\* The awaits of a retrieval and of the processing of an action
\* ------------------------------------------------------------------------
\* Process 1 runs retrieveRelevantMemories, on its own (kind "retrieving") or
\* as the first await of generateStoryResponse (kind "acting").  pc is the
\* external call it awaits: "db", "embed", "query", "generate"; "pending" once
\* the awaited call is one that never settles; "done" when it has returned.
Awaits == {"db", "embed", "query", "generate"}

Awaiting(kind, pc, req, db, emb, result) ==
  [kind |-> kind, pc |-> pc, req |-> req, db |-> db, emb |-> emb, result |-> result]

\* retrieveRelevantMemories has returned: generateStoryResponse goes on to
\* env.AI.run for the story
AfterRetrieval(proc, result) ==
  [proc EXCEPT !.pc = IF proc.kind = "acting" THEN "generate" ELSE "done",
               !.result = result]

\* POST /game/memory/context calls retrieveRelevantMemories
CallRetrieve ==
  /\ call = NoCall /\ extracted = NoExtract
  /\ procs[1] = Idle
  /\ \E req \in Requests :
       procs' = [procs EXCEPT ![1] =
         Awaiting("retrieving", "db", req, [kind |-> "none", rows |-> <<>>], "none",
                  Returned(<<>>))]
  /\ UNCHANGED <<inventories, memories, index, call, batch, extracted>>

\* POST /game/action calls generateStoryResponse, which asks for three
\* memories
CallAction ==
  /\ call = NoCall /\ extracted = NoExtract
  /\ procs[1] = Idle
  /\ \E playerId \in Players :
       procs' = [procs EXCEPT ![1] =
         Awaiting("acting", "db", [playerId |-> playerId, hasLimit |-> TRUE, limit |-> 3],
                  [kind |-> "none", rows |-> <<>>], "none", Returned(<<>>))]
  /\ UNCHANGED <<inventories, memories, index, call, batch, extracted>>

\* env.DB.prepare(...).all() settles
DbResponds ==
  /\ procs[1].pc = "db"
  /\ \E db \in DbOutcomes(memories, procs[1].req) :
       LET proc == procs[1]
           notCalled == [kind |-> "notcalled", matches |-> <<>>]
       IN procs' = [procs EXCEPT ![1] =
            IF db.kind = "throw"
              THEN AfterRetrieval([proc EXCEPT !.db = db],
                     retrieveRelevantMemories(proc.req, db, "throw", notCalled))
              ELSE [proc EXCEPT !.pc = "embed", !.db = db]]
  /\ UNCHANGED <<inventories, memories, index, call, batch, extracted>>

\* env.AI.run for the embedding settles
EmbeddingResponds ==
  /\ procs[1].pc = "embed"
  /\ \E emb \in EmbeddingOutcomes :
       LET proc == procs[1]
           notCalled == [kind |-> "notcalled", matches |-> <<>>]
       IN procs' = [procs EXCEPT ![1] =
            IF emb = "ok" THEN [proc EXCEPT !.pc = "query", !.emb = emb]
            ELSE AfterRetrieval([proc EXCEPT !.emb = emb],
                   retrieveRelevantMemories(proc.req, proc.db, emb, notCalled))]
  /\ UNCHANGED <<inventories, memories, index, call, batch, extracted>>

\* env.MEMORIES_VECTORSTORE.query settles
IndexResponds ==
  /\ procs[1].pc = "query"
  /\ \E vs \in VsOutcomes(memories, procs[1].req) :
       LET proc == procs[1]
       IN procs' = [procs EXCEPT ![1] =
            AfterRetrieval(proc,
              retrieveRelevantMemories(proc.req, proc.db, proc.emb, vs))]
  /\ UNCHANGED <<inventories, memories, index, call, batch, extracted>>

\* env.AI.run for the story settles; no answer gives storeMemories an effect
\* to store
GeneratorResponds ==
  /\ procs[1].pc = "generate"
  /\ \E answer \in StoryAnswers :
       /\ generateStoryResponse(answer).toStore = <<>>
       /\ procs' = [procs EXCEPT ![1] =
            [@ EXCEPT !.pc = "done",
                      !.result = Returned(generateStoryResponse(answer).list)]]
  /\ UNCHANGED <<inventories, memories, index, call, batch, extracted>>

\* the awaited promise never settles: no statement of the function runs again
OnTimeout(proc) == [proc EXCEPT !.pc = "pending"]

\* the external call the process awaits is one that never responds
NeverResponds ==
  /\ procs[1].pc \in Awaits
  /\ procs' = [procs EXCEPT ![1] = OnTimeout(@)]
  /\ UNCHANGED <<inventories, memories, index, call, batch, extracted>>

NextAwaits ==
  \/ CallRetrieve
  \/ CallAction
  \/ DbResponds
  \/ EmbeddingResponds
  \/ IndexResponds
  \/ GeneratorResponds
  \/ NeverResponds

SpecAwaits == InitRetrieve /\ [][NextAwaits]_vars

\* the runtime resumes a function whose awaited promise has settled, and the
\* environment decides for every call whether it responds
SpecAwaitsFair == SpecAwaits /\ WF_vars(NextAwaits)

\* ------------------------------------------------------------------------
\* Inventories: workers/items.ts, POST /players/:id/inventory of player.ts
\* ------------------------------------------------------------------------
\* An inventory is {items, capacity}: items maps the ids of the entries to
\* their quantity.
MaxCapacity == 2

\* the quantities of one entry stay within -MaxHeld..MaxHeld
MaxHeld == 3

\* rows of the table `items`
Catalog == {"sword", "gold"}

\* itemId of a request body: an item of the table, an id that is in no row,
\* no itemId at all
RequestItemIds == Catalog \cup {"cave", Undefined}

\* quantity of a request body: numbers, or no quantity at all
RequestQuantities == {JUndef} \cup {JNum(n) : n \in -1..2}

InventoryRequests ==
  [playerId : Players, itemId : RequestItemIds, quantity : RequestQuantities]

\* {}
NoItems == [id \in {} |-> 0]

\* {items: {}, capacity}
createInventory(capacity) == [items |-> NoItems, capacity |-> capacity]

\* Object.keys(inventory.items).length
Size(inventory) == Cardinality(DOMAIN inventory.items)

\* !!inventory.items[itemId]
Held(inventory, itemId) == itemId \in DOMAIN inventory.items

\* the capacity check with > for >=
IsFull_OneMore(inventory, itemId) ==
  Size(inventory) > inventory.capacity /\ ~Held(inventory, itemId)

\* Object.keys(inventory.items).length >= inventory.capacity
\*   && !inventory.items[itemId]
IsFull(inventory, itemId) ==
  Size(inventory) >= inventory.capacity /\ ~Held(inventory, itemId)

\* inventory.items[itemId].quantity += quantity, or a new entry
AddEntry(inventory, itemId, quantity) ==
  IF Held(inventory, itemId)
    THEN [inventory EXCEPT !.items[itemId] = @ + quantity]
  ELSE [inventory EXCEPT !.items =
          [id \in DOMAIN @ \cup {itemId} |->
             IF id = itemId THEN quantity ELSE @[id]]]

\* inventory.items[itemId].quantity -= quantity; the entry is deleted when
\* nothing is left
RemoveEntry(inventory, itemId, quantity) ==
  IF inventory.items[itemId] - quantity <= 0
    THEN [inventory EXCEPT !.items =
            [id \in DOMAIN @ \ {itemId} |-> @[id]]]
  ELSE [inventory EXCEPT !.items[itemId] = @ - quantity]

\* !itemId || typeof quantity !== 'number' || quantity <= 0
InvalidItemRequest(req) ==
  req.itemId = Undefined \/ ~IsNumber(req.quantity) \/ req.quantity.n <= 0

\* !body.itemId || !body.quantity
MissingItemFields(req) == req.itemId = Undefined \/ ~Truthy(req.quantity)

\* the outcome of a request: the status of the Response and the inventory
\* the row holds afterwards
Outcome(status, stored) == [status |-> status, stored |-> stored]

\* addItemToInventory of ItemWorker; failed: a statement on env.DB rejects
addItemToInventory(table, req, failed) ==
  LET inventory == table[req.playerId]
  IN IF InvalidItemRequest(req) THEN Outcome(400, table)
     ELSE IF failed THEN Outcome(500, table)
     ELSE IF req.playerId \notin DOMAIN table THEN Outcome(404, table)
     ELSE IF IsFull(inventory, req.itemId) THEN Outcome(400, table)
     ELSE IF req.itemId \notin Catalog THEN Outcome(404, table)
     ELSE Outcome(200, [table EXCEPT ![req.playerId] =
                          AddEntry(inventory, req.itemId, req.quantity.n)])

\* POST /players/:id/inventory of PlayerWorker
PostInventory(table, req, failed) ==
  LET inventory == table[req.playerId]
  IN IF MissingItemFields(req) THEN Outcome(400, table)
     ELSE IF failed THEN Outcome(500, table)
     ELSE IF req.playerId \notin DOMAIN table THEN Outcome(404, table)
     ELSE IF req.itemId \notin Catalog THEN Outcome(404, table)
     ELSE IF IsFull(inventory, req.itemId) THEN Outcome(400, table)
     ELSE Outcome(200, [table EXCEPT ![req.playerId] =
                          AddEntry(inventory, req.itemId, req.quantity.n)])

\* removeItemFromInventory of ItemWorker
removeItemFromInventory(table, req, failed) ==
  LET inventory == table[req.playerId]
  IN IF InvalidItemRequest(req) THEN Outcome(400, table)
     ELSE IF failed THEN Outcome(500, table)
     ELSE IF req.playerId \notin DOMAIN table THEN Outcome(404, table)
     ELSE IF ~Held(inventory, req.itemId)
             \/ inventory.items[req.itemId] < req.quantity.n
       THEN Outcome(400, table)
     ELSE Outcome(200, [table EXCEPT ![req.playerId] =
                          RemoveEntry(inventory, req.itemId, req.quantity.n)])

\* the quantities of the table stay within the bound
WithinHeld(table) ==
  \A p \in DOMAIN table : \A id \in DOMAIN table[p].items :
    table[p].items[id] <= MaxHeld /\ table[p].items[id] >= 0 - MaxHeld

\* a request has been answered
Answered(route, req, outcome) ==
  /\ WithinHeld(outcome.stored)
  /\ inventories' = outcome.stored
  /\ call' = [kind |-> "inventory", route |-> route, req |-> req,
              status |-> outcome.status, before |-> inventories]
  /\ UNCHANGED <<memories, index, procs, batch, extracted>>

\* POST /players/:id/inventory/add
AddItem ==
  \E req \in InventoryRequests, failed \in BOOLEAN :
    Answered("items.add", req, addItemToInventory(inventories, req, failed))

\* POST /players/:id/inventory
AddItemToPlayer ==
  \E req \in InventoryRequests, failed \in BOOLEAN :
    Answered("players.add", req, PostInventory(inventories, req, failed))

\* POST /players/:id/inventory/remove
RemoveItem ==
  \E req \in InventoryRequests, failed \in BOOLEAN :
    Answered("items.remove", req, removeItemFromInventory(inventories, req, failed))

\* POST /players has created player p1 with an empty inventory
InitInventory ==
  /\ memories = <<>>
  /\ index = <<>>
  /\ procs = NoProcs
  /\ call = NoCall
  /\ batch = <<>>
  /\ extracted = NoExtract
  /\ \E capacity \in 1..MaxCapacity :
       inventories = [p \in {"p1"} |-> createInventory(capacity)]

NextInventory == AddItem \/ AddItemToPlayer \/ RemoveItem

SpecInventory == InitInventory /\ [][NextInventory]_vars


\* ------------------------------------------------------------------------
\* Two inventory requests at a time: every handler reads the row with one
\* statement (SELECT inventory FROM players), awaits, and writes the whole
\* inventory back with another (UPDATE players SET inventory = ?)
\* ------------------------------------------------------------------------
InventoryRoutes == {"items.add", "players.add", "items.remove"}

\* the bodies of the requests that run side by side; quantity 0 is refused
\* by every route
RaceRequests ==
  [playerId : {"p1"}, itemId : Catalog, quantity : {JNum(0), JNum(1), JNum(2)}]

\* the inventories of p1 the requests start from: empty, or one sword entry
StartItems ==
  {NoItems} \cup {[id \in {"sword"} |-> n] : n \in 1..2}

\* the handler of a route on the table it has read, no statement rejecting
Handle(route, req, table) ==
  IF route = "items.add" THEN addItemToInventory(table, req, FALSE)
  ELSE IF route = "players.add" THEN PostInventory(table, req, FALSE)
  ELSE removeItemFromInventory(table, req, FALSE)

\* the validation of the body, before the first statement
RefusedBody(route, req) ==
  IF route = "players.add" THEN MissingItemFields(req) ELSE InvalidItemRequest(req)

\* the answer is given right after the row is read: the checks on the row of
\* ItemWorker; PlayerWorker first selects the item
RefusedOnRead(route, req, table) ==
  /\ route # "players.add"
  /\ Handle(route, req, table).status # 200
  /\ ~(route = "items.add" /\ Handle(route, req, table).status = 404)

InventoryProc(pc, route, req, read, status) ==
  [kind |-> "inventory", pc |-> pc, route |-> route, req |-> req,
   read |-> read, status |-> status]

\* request.json() and the validation of the body
ReceiveRequest(p) ==
  /\ procs[p].pc = "idle"
  /\ \E route \in InventoryRoutes, req \in RaceRequests :
       procs' = [procs EXCEPT ![p] =
         IF RefusedBody(route, req)
           THEN InventoryProc("done", route, req, NoInventories, 400)
         ELSE InventoryProc("select", route, req, NoInventories, 0)]
  /\ UNCHANGED <<inventories, memories, index, call, batch, extracted>>

\* await env.DB.prepare(`SELECT inventory FROM players WHERE id = ?`)
SelectInventory(p) ==
  /\ procs[p].pc = "select"
  /\ LET proc == procs[p]
         outcome == Handle(proc.route, proc.req, inventories)
     IN procs' = [procs EXCEPT ![p] =
          IF RefusedOnRead(proc.route, proc.req, inventories)
            THEN InventoryProc("done", proc.route, proc.req, inventories, outcome.status)
          ELSE IF proc.route = "items.remove"
            THEN InventoryProc("update", proc.route, proc.req, inventories, 0)
          ELSE InventoryProc("item", proc.route, proc.req, inventories, 0)]
  /\ UNCHANGED <<inventories, memories, index, call, batch, extracted>>

\* await env.DB.prepare(`SELECT * FROM items WHERE id = ?`), and the change
\* of the inventory that was read
SelectItem(p) ==
  /\ procs[p].pc = "item"
  /\ LET proc == procs[p]
         outcome == Handle(proc.route, proc.req, proc.read)
     IN procs' = [procs EXCEPT ![p] =
          IF outcome.status # 200
            THEN InventoryProc("done", proc.route, proc.req, proc.read, outcome.status)
          ELSE InventoryProc("update", proc.route, proc.req, proc.read, 0)]
  /\ UNCHANGED <<inventories, memories, index, call, batch, extracted>>

\* await env.DB.prepare(`UPDATE players SET inventory = ? WHERE id = ?`)
\* with the inventory that was read and changed
UpdateInventory(p) ==
  /\ procs[p].pc = "update"
  /\ LET proc == procs[p]
         outcome == Handle(proc.route, proc.req, proc.read)
     IN /\ inventories' = [inventories EXCEPT ![proc.req.playerId] =
                             outcome.stored[proc.req.playerId]]
        /\ procs' = [procs EXCEPT ![p] =
             InventoryProc("done", proc.route, proc.req, proc.read, 200)]
  /\ UNCHANGED <<memories, index, call, batch, extracted>>

\* player p1 holds one of the starting inventories; call keeps it
InitInventoryRace ==
  /\ memories = <<>>
  /\ index = <<>>
  /\ procs = NoProcs
  /\ batch = <<>>
  /\ extracted = NoExtract
  /\ \E capacity \in 1..MaxCapacity, items \in StartItems :
       /\ inventories = [p \in {"p1"} |-> [items |-> items, capacity |-> capacity]]
       /\ call = [kind |-> "inventories", before |-> inventories]

NextInventoryRace ==
  \E p \in Procs :
    \/ ReceiveRequest(p)
    \/ SelectInventory(p)
    \/ SelectItem(p)
    \/ UpdateInventory(p)

SpecInventoryRace == InitInventoryRace /\ [][NextInventoryRace]_vars

NextWriteBack ==
  \/ StartWriteBack
  \/ StoreEmbed(1)
  \/ StoreIndexInsert(1)
  \/ StoreDbInsert(1)

SpecWriteBack == InitStore /\ [][NextWriteBack]_vars

\* ------------------------------------------------------------------------
\* Properties of retrieveRelevantMemories
\* ------------------------------------------------------------------------
Retrieved == call.kind = "retrieve"

PlayerRows(p) == {i \in 1..Len(memories) : memories[i].player_id = p}

\* list is the relational rows of player p, ordered by importance descending
\* and truncated to limit
IsRelationalTop(list, p, limit) ==
  /\ Len(list) = Min(limit, Cardinality(PlayerRows(p)))
  /\ \A i \in 1..Len(list) :
       \E k \in PlayerRows(p) :
         /\ list[i].id = memories[k].id
         /\ list[i].playerId = p
         /\ list[i].importance = memories[k].importance
  /\ \A i, j \in 1..Len(list) : i < j =>
       /\ list[i].id # list[j].id
       /\ list[i].importance >= list[j].importance
  /\ \A k \in PlayerRows(p) :
       (\A i \in 1..Len(list) : list[i].id # memories[k].id) =>
         \A i \in 1..Len(list) : list[i].importance >= memories[k].importance

\* the matches of an index answer that belong to player p
OwnMatches(ms, p) == {i \in 1..Len(ms) : ms[i].hasMeta /\ ms[i].playerId = p}

\* C1: a player with at least one relational memory, a relational query that
\* succeeded and limit >= 1 give a non-empty result, whatever the embedding
\* provider and the similarity index do.
C1_NonEmptyForPlayerWithMemories ==
  (/\ Retrieved
   /\ call.db.kind = "ok"
   /\ RequestLimit(call.req) >= 1
   /\ PlayerRows(call.req.playerId) # {})
    => Len(call.result.list) >= 1

\* C2: when the embedding call raises or returns no vector, the call does not
\* raise and returns the player's relational memories by importance
\* descending, truncated to limit.
C2_EmbeddingFailureFallsBack ==
  (/\ Retrieved
   /\ call.db.kind = "ok"
   /\ call.emb \in {"throw", "nodata"})
    => /\ ~call.result.raised
       /\ IsRelationalTop(call.result.list, call.req.playerId,
                          RequestLimit(call.req))

\* C3: when the index answers with zero matches, or only with matches that are
\* not the requesting player's, a player with relational memories gets exactly
\* the relational rows by importance descending, truncated to limit.
C3_FallbackEquivalence ==
  (/\ Retrieved
   /\ call.db.kind = "ok"
   /\ call.emb = "ok"
   /\ call.vs.kind \in {"nomatches", "ok"}
   /\ OwnMatches(call.vs.matches, call.req.playerId) = {}
   /\ PlayerRows(call.req.playerId) # {})
    => IsRelationalTop(call.result.list, call.req.playerId,
                       RequestLimit(call.req))

\* the index answered only with entries of other players and the fallback
\* had to choose among two rows of the player
C3_Witness ==
  /\ Retrieved
  /\ call.result.path = "fallback-filtered"
  /\ Cardinality(PlayerRows(call.req.playerId)) = 2
  /\ Len(call.result.list) = 1
  /\ \E k \in PlayerRows(call.req.playerId) :
       memories[k].importance < call.result.list[1].importance

\* C4: for limit >= 0 the result holds at most limit memories, whatever the
\* outcomes of the three external calls.
C4_AtMostLimit ==
  Retrieved => Len(call.result.list) <= RequestLimit(call.req)

\* the index returned more matches of the player than the limit allows
C4_Witness ==
  /\ Retrieved
  /\ call.result.path = "similarity"
  /\ call.req.hasLimit
  /\ call.req.limit >= 1
  /\ Cardinality(OwnMatches(call.vs.matches, call.req.playerId)) > call.req.limit
  /\ Len(call.result.list) = call.req.limit

\* C5: every memory returned for player P has playerId = P, on the similarity
\* path and on the fallback path.
C5_OnlyOwnMemories ==
  Retrieved =>
    \A i \in 1..Len(call.result.list) :
      call.result.list[i].playerId = call.req.playerId

\* the index answered with an entry of the player and an entry of another
\* player, and the similarity path returned
C5_Witness ==
  /\ Retrieved
  /\ call.result.path = "similarity"
  /\ Len(call.result.list) >= 1
  /\ \E i \in 1..Len(call.vs.matches) :
       /\ call.vs.matches[i].hasMeta
       /\ call.vs.matches[i].playerId # call.req.playerId

\* importance as the ranking is meant to read it: a missing value counts as 0.5
SpecImportance(x) == IF x = NaN THEN DefaultImportance ELSE x

\* position of the memory with this id in the list, 0 when it is not there
PositionOf(list, id) ==
  IF \E i \in 1..Len(list) : list[i].id = id
    THEN CHOOSE i \in 1..Len(list) : list[i].id = id
    ELSE 0

\* C6: on the similarity path, of two matches of the requesting player with
\* equal similarity score and importance i1 > i2, the one with i1 is placed at
\* or before the one with i2.
C6_HigherImportanceRanksFirst ==
  (Retrieved /\ call.result.path = "similarity") =>
    \A a, b \in OwnMatches(call.vs.matches, call.req.playerId) :
      LET ma == call.vs.matches[a]
          mb == call.vs.matches[b]
          pa == PositionOf(call.result.list, ma.id)
          pb == PositionOf(call.result.list, mb.id)
      IN (/\ ma.score = mb.score
          /\ SpecImportance(ma.importance) > SpecImportance(mb.importance)
          /\ pb # 0)
           => (pa # 0 /\ pa < pb)

\* ------------------------------------------------------------------------
\* Claims about effect validation and extraction
\* ------------------------------------------------------------------------
Validated == extracted.kind \in {"validate4", "validate5"}

Extracted == extracted.kind \in {"interpret", "story"}

\* the validator of the worker that produced the state
ValidatorOf(kind, parsedEffects) ==
  IF kind = "validate4" THEN validateAndProcessEffects(parsedEffects)
  ELSE validateAndProcessEffects5(parsedEffects)

\* TRUE when the candidate, validated on its own, is accepted
AcceptedAlone(kind, candidate) ==
  LET r == ValidatorOf(kind, ParsedArray(<<candidate>>))
  IN ~r.raised /\ Len(r.list) = 1

\* the candidates of the batch that are accepted on their own, in input order
AcceptedOfBatch(kind, items) ==
  LET idx == SelectIdx(Len(items), {i \in 1..Len(items) : AcceptedAlone(kind, items[i])})
  IN [i \in 1..Len(idx) |-> ValidatorOf(kind, ParsedArray(<<items[idx[i]]>>)).list[1]]

\* C7: validation is per record: the output of a batch is the list of the
\* candidates that are valid on their own, in input order; an invalid
\* candidate never takes a valid sibling with it.
C7_PerRecordValidation ==
  Validated => extracted.result.list = AcceptedOfBatch(extracted.kind, batch)

\* the required payload fields of the variant carry the required types
RequiredFieldsTyped(kind, e) ==
  LET d == e.data
  IN /\ e.kind = "obj" /\ Truthy(e.type) /\ Truthy(e.action) /\ d.kind = "obj"
     /\ Is(e.type, "item") =>
          /\ IsString(d.id) /\ IsNumber(d.quantity)
          /\ kind = "validate5" => IsString(d.name) /\ IsNumber(d.value)
     /\ Is(e.type, "location") => IsString(d.name) /\ IsString(d.description)
     /\ Is(e.type, "quest") =>
          /\ IsString(d.id)
          /\ kind = "validate4" => IsNumber(d.progress)
          /\ kind = "validate5" =>
               /\ IsString(d.title) /\ IsString(d.description)
               /\ d.objectives.kind = "arr" /\ d.rewards.kind = "arr"
     /\ Is(e.type, "status") =>
          /\ IsNumber(d.value)
          /\ kind = "validate4" => IsString(d.type)
          /\ kind = "validate5" =>
               IsString(d.id) /\ IsString(d.name) /\ IsNumber(d.duration)
     /\ Is(e.type, "attribute") => IsString(d.name) /\ IsNumber(d.value)

\* C8: every returned effect is fully valid: type, action and data present
\* and every required payload field of its variant of the required type.
C8_ReturnedEffectsFullyValid ==
  Validated =>
    \A i \in 1..Len(extracted.result.list) :
      RequiredFieldsTyped(extracted.kind, extracted.result.list[i])

\* a one-candidate batch taken from the type/action grid
GridBatch == Len(batch) = 1 /\ batch[1] \in GridCandidates

PairOf(candidate) == <<candidate.type.s[1], candidate.action.s[1]>>

C9_StatedPairs ==
  ({"item"} \X {"add", "remove", "use"})
    \cup ({"quest"} \X {"add", "update", "complete"})
    \cup ({"location"} \X {"update"})
    \cup ({"status"} \X {"add", "remove", "update"})
    \cup ({"attribute"} \X {"update"})

C9_PairsFiveVariant ==
  ({"item"} \X {"add", "remove"})
    \cup ({"quest"} \X {"add", "update", "complete"})
    \cup ({"location"} \X {"update"})
    \cup ({"status"} \X {"add", "remove", "update"})
    \cup ({"attribute"} \X {"update"})

C9_PairsFourVariant ==
  ({"item"} \X {"add", "remove", "use"})
    \cup ({"quest"} \X {"start", "update", "complete"})
    \cup ({"location"} \X {"move"})
    \cup ({"status"} \X {"update"})

C10_ExtractionNeverRaises ==
  Extracted =>
    /\ ~extracted.result.raised
    /\ Len(extracted.result.list) <= Len(extracted.answer.effects.items)

\* a text that JSON.parse rejects has been answered with the empty list
C10_Witness ==
  /\ Extracted
  /\ extracted.answer.kind = "syntax"
  /\ extracted.result = Returned(<<>>)

\* ------------------------------------------------------------------------
\* Claims about the embedding dimension of a query
\* ------------------------------------------------------------------------
\* C18: when the embedding of the query has not the configured dimension,
\* retrieveRelevantMemories reports an error to its caller and does not
\* return a normal (empty or fallback) result.
C18_DimensionMismatchIsReported ==
  (Retrieved /\ call.db.kind # "throw" /\ call.emb = "wrongdim") =>
    call.result.raised

\* ------------------------------------------------------------------------
\* Properties of the two stores
\* ------------------------------------------------------------------------
RowIds == {memories[i].id : i \in 1..Len(memories)}

IndexIds == {index[i].id : i \in 1..Len(index)}

\* C11: the index insert of a memory comes before its relational insert and
\* the relational insert is made only after the index insert succeeded, so
\* every id of the relational table is an id of the similarity index.
C11_RowsAreIndexed == RowIds \subseteq IndexIds

\* a memory is in both stores and another one reached the index only
C11_Witness ==
  /\ RowIds # {}
  /\ RowIds \subseteq IndexIds
  /\ IndexIds \ RowIds # {}
  /\ \A p \in Procs : procs[p].pc = "done"

\* ------------------------------------------------------------------------
\* Properties of storeMemories
\* ------------------------------------------------------------------------
Interpreting(p) == procs[p].kind = "interpret"

Finished(p) == Interpreting(p) /\ procs[p].pc = "done"

\* the positions 1..n in order
Positions(n) == [k \in 1..n |-> k]

\* C12: storeMemories never raises, and once it has returned the embedding
\* was requested for every qualifying effect of the batch, in order, whatever
\* failed for the effects before it.
C12_FailuresDoNotStopBatch ==
  \A p \in Procs : Interpreting(p) =>
    /\ ~procs[p].raised
    /\ procs[p].embedded = Positions(procs[p].i)
    /\ Finished(p) =>
         procs[p].embedded = Positions(Len(ToStore(procs[p])))

\* the first of two qualifying effects failed and the second one was stored
C12_Witness ==
  /\ Finished(1)
  /\ Len(ToStore(procs[1])) = 2
  /\ RowIds = {nanoid(1, 2)}
  /\ IndexIds = {nanoid(1, 2)}

\* an effect that is to become a memory: quest, location, or item with add
Qualifies(effect) ==
  \/ effect.type = Word("quest")
  \/ effect.type = Word("location")
  \/ (effect.type = Word("item") /\ effect.action = Word("add"))

QualifyingPositions(effects) == {k \in 1..Len(effects) : Qualifies(effects[k])}

\* the effect the n-th id of invocation p was drawn for
EffectOfId(p, n) == ToStore(procs[p])[procs[p].embedded[n]]

\* C13: write-back makes a record for an effect exactly when the effect is of
\* type quest, of type location, or of type item with action add: every row
\* and every index entry belongs to such an effect, and once storeMemories
\* has returned an embedding was requested for each of them and for no other
\* effect.
C13_OnlyQualifyingEffectsStored ==
  \A p \in Procs : Interpreting(p) =>
    /\ \A i \in 1..Len(memories) :
         \/ memories[i].type \in {<<"quest">>, <<"location">>}
         \/ (memories[i].type = <<"item">> /\ memories[i].action = <<"add">>)
    /\ \A id \in RowIds \cup IndexIds :
         /\ id[1] = p => id[2] \in 1..Len(procs[p].embedded)
         /\ id[1] = p => Qualifies(EffectOfId(p, id[2]))
    /\ Finished(p) =>
         Len(procs[p].embedded) =
           Cardinality(QualifyingPositions(procs[p].effects))

\* a batch of one effect that qualifies and one that does not has returned
\* with one record in each store
C13_Witness ==
  /\ Finished(1)
  /\ Len(procs[1].effects) = 2
  /\ Cardinality(QualifyingPositions(procs[1].effects)) = 1
  /\ Len(memories) = 1
  /\ Len(index) = 1

\* both invocations are storeMemories calls for the same player
ConcurrentWriteBacks ==
  /\ \A p \in Procs : Interpreting(p)
  /\ procs[1].player = procs[2].player

\* table is the start of table2: every row of table is in table2, unchanged
\* and at the same place
IsPrefix(table, table2) ==
  /\ Len(table) <= Len(table2)
  /\ \A i \in 1..Len(table) : table2[i] = table[i]

\* C14: in every step of two concurrent storeMemories calls for one player
\* the rows already in the table stay as they are, at most one row is added,
\* and the added row has an id no other row has: no record of one call is
\* lost, overwritten or merged by the other.
C14_ConcurrentWriteBacksKeepAllRows ==
  [][ConcurrentWriteBacks =>
       /\ IsPrefix(memories, memories')
       /\ Len(memories') <= Len(memories) + 1
       /\ Len(memories') = Len(memories) + 1 =>
            memories'[Len(memories')].id \notin RowIds
       /\ IsPrefix(index, index')
       /\ Len(index') = Len(index) + 1 =>
            index'[Len(index')].id \notin IndexIds]_vars

\* the two calls have returned; the second call reached the index after the
\* first and the table before it, and both rows are in the table
C14_Witness ==
  /\ ConcurrentWriteBacks
  /\ \A p \in Procs : Finished(p)
  /\ Len(memories) = 2
  /\ memories[1].id = nanoid(2, 1)
  /\ memories[2].id = nanoid(1, 1)
  /\ Len(index) = 2
  /\ index[1].id = nanoid(1, 1)

\* C15: no step of retrieval, write-back or direct ingestion changes or
\* removes a row that is in the relational table: in every step the table
\* keeps its rows as they are and only grows.
C15_RowsAreImmutable == [][IsPrefix(memories, memories')]_vars

\* a row of each write path is in the table and a retrieval has read them
C15_Witness ==
  /\ Retrieved
  /\ call.db.kind = "ok"
  /\ \E i, j \in 1..Len(memories) :
       /\ memories[i].source = "story_generation"
       /\ memories[j].source = "request"

\* ------------------------------------------------------------------------
\* Properties of POST /game/action
\* ------------------------------------------------------------------------
ActionAnswered == extracted.kind = "action"

\* C16: a POST /game/action whose body parses to an object is answered with
\* HTTP 200 and a story that is a non-empty string, whatever retrieval,
\* embedding, generation and parsing did.
C16_ActionAnswersWithStory ==
  (ActionAnswered /\ extracted.body.kind = "ok") =>
    /\ extracted.response.status = 200
    /\ extracted.response.story = "text"

StoredWithQueryText ==
  {memories[i].id : i \in {k \in 1..Len(memories) :
      /\ memories[k].player_id = call.req.playerId
      /\ memories[k].text = QueryText(call.req)
      /\ memories[k].id \in IndexIds}}

ResultIds == {call.result.list[i].id : i \in 1..Len(call.result.list)}

\* similarity multiplied by importance, the combined score of spec 4.1
SimilarityTimesImportance(match) == match.score * match.importance

\* the matches of the index answer that belong to the player of the request
\* and are not memory id
OtherMatches(id) ==
  {k \in 1..Len(call.vs.matches) :
     /\ call.vs.matches[k].playerId = call.req.playerId
     /\ call.vs.matches[k].id # id}

\* the index answer holds memory id, and fewer than limit other matches of
\* the player have a combined score at or above the one of id
RanksWithinLimit(id) ==
  \E m \in 1..Len(call.vs.matches) :
    /\ call.vs.matches[m].id = id
    /\ Cardinality({k \in OtherMatches(id) :
         SimilarityTimesImportance(call.vs.matches[k])
           >= SimilarityTimesImportance(call.vs.matches[m])}) < call.req.limit

RoundTripAnswered ==
  /\ Retrieved
  /\ call.req.limit >= 1
  /\ call.db.kind = "ok" /\ call.emb = "ok" /\ call.vs.kind = "ok"

C20_ImportanceInRange ==
  /\ \A i \in 1..Len(memories) :
       memories[i].importance >= 0 /\ memories[i].importance <= 10
  /\ \A i \in 1..Len(index) :
       index[i].importance >= 0 /\ index[i].importance <= 10

\* ------------------------------------------------------------------------
\* Claims about identifiers and strings of returned effects
\* ------------------------------------------------------------------------
\* s is lowercase and has only characters of [a-z0-9_-]
IsNormalizedId(s) == \A i \in 1..Len(s) : s[i] \in WordTokens \cup {"s"}

\* s has no character outside the printable ASCII range
HasOnlyPrintable(s) == \A i \in 1..Len(s) : s[i] # "~e"

\* the string payload fields of an effect
StringFields(d) ==
  {v \in {d.id, d.name, d.type, d.rarity, d.title, d.description, d.difficulty} :
     v.t = "str"}

\* the objectives nested in the payload
NestedObjectives(d) ==
  IF d.objectives.kind = "arr"
    THEN {d.objectives.items[i] : i \in 1..Len(d.objectives.items)}
    ELSE {}

\* C21: in every returned effect data.id and the ids of the nested
\* objectives are lowercase with characters of [a-z0-9_-] only, and no
\* string payload field holds a non-printable character.
C21_ReturnedIdsNormalized ==
  Validated =>
    \A i \in 1..Len(extracted.result.list) :
      LET d == extracted.result.list[i].data
      IN /\ d.id.t = "str" => IsNormalizedId(d.id.s)
         /\ \A obj \in NestedObjectives(d) :
              obj.id.t = "str" => IsNormalizedId(obj.id.s)
         /\ \A v \in StringFields(d) : HasOnlyPrintable(v.s)

Normalized == extracted.kind = "normalized"

\* C25: the normalization of an identifier is idempotent, and it leaves an
\* identifier that is lowercase with characters of [a-z0-9_-] only as it is.
C25_NormalizeIdempotent ==
  Normalized =>
    /\ extracted.twice = extracted.once
    /\ IsNormalizedId(extracted.input) => extracted.once = extracted.input

\* an identifier with an uppercase letter and a character outside the set
\* was changed into one that is not empty
C25_Witness ==
  /\ Normalized
  /\ "S" \in Range(extracted.input)
  /\ "!" \in Range(extracted.input)
  /\ extracted.once # <<>>
  /\ extracted.twice = extracted.once


\* ------------------------------------------------------------------------
\* Properties of the cleaning and parsing of answer texts
\* ------------------------------------------------------------------------
Interpreted == extracted.kind = "interpreted"

Told == extracted.kind = "told"

\* C22: a text that holds a valid effect payload, alone or with control
\* characters, blanks and stray quotes around and inside it, is cleaned and
\* parsed so that the worker returns the valid effects of the payload; the
\* cleaning of a well-formed payload does not change what it parses to.
C22_ValidPayloadIsReturned ==
  /\ (Interpreted /\ PayloadEffects5(RemoveControl(extracted.payload)) # <<>>)
       => extracted.list = PayloadEffects5(RemoveControl(extracted.payload))
  /\ (Told /\ PayloadEffects4(RemoveControl(extracted.payload)) # <<>>)
       => extracted.list = PayloadEffects4(RemoveControl(extracted.payload))

\* the text could not be parsed: JSON.parse rejected it and the part between
\* its braces, or gave null
ParseFailed == Told /\ extracted.parsed \in {"syntax", "null"}

C23_OrderedByImportance ==
  Retrieved =>
    \A k \in 1..(Len(call.result.list) - 1) :
      LET a == call.result.list[k].importance
          b == call.result.list[k + 1].importance
      IN (a # NaN /\ b # NaN) => a >= b


\* C27: what retrieveRelevantMemories returns for a player depends on the
\* player's own memories and the query only: with entries of other players in
\* the index the call returns the list, by the same path, that it returns
\* without them.
C27_OthersDoNotChangeResult ==
  call.kind = "isolation" =>
    /\ call.result.list = call.alone.list
    /\ (call.result.path = "similarity") = (call.alone.path = "similarity")


\* C26: every retrieval and every processing of an action returns in the end,
\* also when an external call never responds: the wait for each external call
\* is bounded, and a call that ran out of time is handled like one that
\* failed.
C26_EveryCallReturns ==
  (procs[1].pc \in Awaits) ~> (procs[1].pc = "done")


\* ------------------------------------------------------------------------
\* Properties of the inventories
\* ------------------------------------------------------------------------
InventoryAnswered == call.kind = "inventory"

AddRoutes == {"items.add", "players.add"}

\* an add request that names the player, an item of the table and a quantity
\* above 0
WellFormedRequest(req, table) ==
  /\ req.playerId \in DOMAIN table
  /\ req.itemId \in Catalog
  /\ req.quantity.t = "num" /\ req.quantity.n > 0

EntriesWithinCapacity(table) ==
  \A p \in DOMAIN table : Cardinality(DOMAIN table[p].items) <= table[p].capacity

\* C24: after every add and remove request the stored inventory has at most
\* capacity entries; an add of an item that is not held to an inventory that
\* is full is answered with 400 and leaves the row as it was, and an add of
\* an item that is held is answered with 200 and raises its quantity.
C24_CapacityIsKept ==
  [][/\ EntriesWithinCapacity(inventories')
     /\ (/\ call'.kind = "inventory"
         /\ call'.route \in AddRoutes
         /\ call'.status # 500
         /\ WellFormedRequest(call'.req, inventories))
          => LET req == call'.req
                 before == inventories[req.playerId]
                 after == inventories'[req.playerId]
             IN IF req.itemId \in DOMAIN before.items
                  THEN /\ call'.status = 200
                       /\ after.items[req.itemId]
                            = before.items[req.itemId] + req.quantity.n
                ELSE IF Cardinality(DOMAIN before.items) >= before.capacity
                  THEN call'.status = 400 /\ inventories' = inventories
                ELSE call'.status = 200 /\ req.itemId \in DOMAIN after.items]_vars

\* an item that is not held was refused by a full inventory of two entries,
\* on the route of ItemWorker
C24_Witness ==
  /\ InventoryAnswered
  /\ call.route = "items.add"
  /\ call.status = 400
  /\ WellFormedRequest(call.req, call.before)
  /\ call.req.itemId \notin DOMAIN call.before["p1"].items
  /\ Cardinality(DOMAIN call.before["p1"].items) = call.before["p1"].capacity
  /\ inventories = call.before

\* C29: every entry of a stored inventory has a quantity that is a number of
\* 1 or more: the add routes accept quantities above 0 only, a remove of more
\* than is held is refused and leaves the row as it was, a remove of q that
\* is held lowers the quantity by q, and an entry that reaches 0 is deleted.
C29_QuantitiesArePositive ==
  /\ \A p \in DOMAIN inventories : \A id \in DOMAIN inventories[p].items :
       inventories[p].items[id] >= 1
  /\ (InventoryAnswered /\ call.route \in AddRoutes /\ call.status = 200)
       => (call.req.quantity.t = "num" /\ call.req.quantity.n > 0)
  /\ (/\ InventoryAnswered
      /\ call.route = "items.remove"
      /\ call.status # 500
      /\ WellFormedRequest(call.req, call.before)
      /\ call.req.itemId \in DOMAIN call.before[call.req.playerId].items)
       => LET p == call.req.playerId
              id == call.req.itemId
              held == call.before[p].items[id]
              q == call.req.quantity.n
          IN IF q > held
               THEN call.status = 400 /\ inventories = call.before
             ELSE IF q = held
               THEN call.status = 200 /\ id \notin DOMAIN inventories[p].items
             ELSE /\ call.status = 200
                  /\ id \in DOMAIN inventories[p].items
                  /\ inventories[p].items[id] = held - q


BothAnswered == \A p \in Procs : procs[p].kind = "inventory" /\ procs[p].pc = "done"

\* the table after the request of proc first and then the request of proc
\* second, one after the other
OneAfterTheOther(first, second) ==
  Handle(procs[second].route, procs[second].req,
         Handle(procs[first].route, procs[first].req, call.before).stored).stored

\* C28: when two inventory requests for the same player run at the same
\* time, whatever the interleaving of their reads and writes, the stored
\* inventory after both is the one that running the two requests one after
\* the other, in one order or the other, leaves.
C28_SomeSequentialOrder ==
  BothAnswered =>
    \/ inventories = OneAfterTheOther(1, 2)
    \/ inventories = OneAfterTheOther(2, 1)

====
